---- MODULE Spec2Model ----
(***************************************************************************)
(* The List and Set types of the server (src/t_list.c, src/t_set.c) and    *)
(* the blocking-pop rendezvous on list keys, as a state machine.  One      *)
(* step is one command handler run to completion by the single-threaded    *)
(* event loop.  Handlers are state transformers: operators from a record   *)
(* of the server state to the record after the handler.                    *)
(***************************************************************************)
EXTENDS Integers, Sequences, FiniteSets, TLC

VARIABLES db, blocking_keys, bpop, flags, unblocked_clients,
          bpop_blocked_clients, reply, dirty, argv, panic

vars == <<db, blocking_keys, bpop, flags, unblocked_clients,
          bpop_blocked_clients, reply, dirty, argv, panic>>

(***************************************************************************)
(* Universe of the model.                                                  *)
(***************************************************************************)
CLIENTS == {"c1", "c2", "c3", "c4"}
KEYS == {"k1", "k2"}
\* Configuration knobs (server.list_max_ziplist_entries, ...).
list_max_ziplist_entries == 2
list_max_ziplist_value == 3
set_max_intset_entries == 2

\* time(NULL) when a blocking command computes its deadline.
unixtime == 100

REDIS_HEAD == "head"
REDIS_TAIL == "tail"

(***************************************************************************)
(* Byte strings and value objects (object.c, util.c, sds.c: external).     *)
(***************************************************************************)
Digits == <<"0", "1", "2", "3", "4", "5", "6", "7", "8", "9">>
NegDigits == <<"-1", "-2", "-3", "-4", "-5", "-6", "-7", "-8", "-9">>
LLRange == -9 .. 9

\* ll2string: the decimal text of an integer.
ll2string(n) == IF n >= 0 THEN Digits[n + 1] ELSE NegDigits[-n]

\* Whether a byte string is the canonical decimal text of an integer
\* (isStringRepresentableAsLong: strtoll and the text written back equal).
isStringRepresentableAsLong(s) == \E n \in LLRange : ll2string(n) = s

\* string2ll on a representable string.
string2ll(s) == CHOOSE n \in LLRange : ll2string(n) = s

\* atoi: the leading integer of the text, 0 when there is none.
atoi(s) ==
    IF isStringRepresentableAsLong(s) THEN string2ll(s)
    ELSE IF s = "01" THEN 1 ELSE 0

sdslen(s) ==
    CASE s = "xxxx" -> 4
      [] s \in {"01"} \cup {NegDigits[i] : i \in 1..9} -> 2
      [] OTHER -> 1

\* A value object: raw bytes or an encoded integer.
createStringObject(s) == [encoding |-> "raw", ptr |-> s]
createStringObjectFromLongLong(n) == [encoding |-> "int", ptr |-> n]

tryObjectEncoding(o) ==
    IF o.encoding = "raw" /\ isStringRepresentableAsLong(o.ptr)
    THEN createStringObjectFromLongLong(string2ll(o.ptr))
    ELSE o

getDecodedObject(o) ==
    IF o.encoding = "int" THEN createStringObject(ll2string(o.ptr)) ELSE o

\* The bytes of an object, as a reply or a comparison sees them.
Bytes(o) == getDecodedObject(o).ptr

equalStringObjects(a, b) == Bytes(a) = Bytes(b)

isObjectRepresentableAsLongLong(o) ==
    o.encoding = "int" \/ isStringRepresentableAsLong(o.ptr)

(***************************************************************************)
(* Literals (lit.c: not among the sources; modelled from the data model of *)
(* the specification).  A literal is a borrowed buffer, an integer or an   *)
(* object.                                                                 *)
(***************************************************************************)
litFromBuffer(s) == [kind |-> "buffer", val |-> createStringObject(s)]
litFromLongLong(n) == [kind |-> "ll", val |-> createStringObjectFromLongLong(n)]
litFromObject(o) == [kind |-> "obj", val |-> o]

\* as-object: the object of the literal, materialized when needed.
litGetObject(lit) == lit.val

\* as-integer: whether the literal decodes to an integer.
litHasLongLong(lit) == isObjectRepresentableAsLongLong(lit.val)
litGetLongLong(lit) == tryObjectEncoding(lit.val).ptr

(***************************************************************************)
(* Replies (networking.c: external).  A reply buffer is the sequence of    *)
(* protocol items appended to it.                                          *)
(***************************************************************************)
ReplyInt(n) == [t |-> "int", v |-> n]
ReplyBulk(s) == [t |-> "bulk", v |-> s]
ReplyMultiBulkLen(n) == [t |-> "mbulk", v |-> n]
ReplyErr(e) == [t |-> "err", v |-> e]

shared_cone == ReplyInt(1)
shared_czero == ReplyInt(0)
shared_cnegone == ReplyInt(-1)
shared_nullbulk == [t |-> "nullbulk", v |-> 0]
shared_nullmultibulk == [t |-> "nullmbulk", v |-> 0]
shared_emptymultibulk == ReplyMultiBulkLen(0)
shared_ok == [t |-> "status", v |-> "OK"]
shared_wrongtypeerr == ReplyErr("wrongtype")
shared_nokeyerr == ReplyErr("nokey")
shared_syntaxerr == ReplyErr("syntax")
shared_outofrangeerr == ReplyErr("outofrange")

addReply(s, c, item) == [s EXCEPT !.reply[c] = Append(@, item)]
addReplyLongLong(s, c, n) == addReply(s, c, ReplyInt(n))
addReplyBulk(s, c, o) == addReply(s, c, ReplyBulk(Bytes(o)))
addReplyMultiBulkLen(s, c, n) == addReply(s, c, ReplyMultiBulkLen(n))
addReplyError(s, c, e) == addReply(s, c, ReplyErr(e))

\* redisAssert / redisPanic: the first failure is kept and the process stops.
Panic(s, msg) == IF s.panic = "" THEN [s EXCEPT !.panic = msg] ELSE s

(***************************************************************************)
(* Keyspace (db.c: external).                                              *)
(***************************************************************************)
NULL == [type |-> "none", encoding |-> "none", ptr |-> <<>>]
NOKEY == "-"

lookupKey(s, key) == s.db[key]
\* dbAdd asserts that the key is not there yet.
dbAdd(s, key, o) ==
    IF s.db[key] # NULL THEN Panic(s, "dbAdd: key exists")
    ELSE [s EXCEPT !.db[key] = o]
dbDelete(s, key) == [s EXCEPT !.db[key] = NULL]
incrDirty(s) == [s EXCEPT !.dirty = @ + 1]

createZiplistObject == [type |-> "list", encoding |-> "ziplist", ptr |-> <<>>]
createIntsetObject == [type |-> "set", encoding |-> "intset", ptr |-> {}]
createSetObject == [type |-> "set", encoding |-> "hashtable", ptr |-> {}]

(***************************************************************************)
(* Primitive containers (ziplist.c, adlist.c: external).  A packed list is *)
(* the sequence of its entries; a cursor is a position in it, 0 for NULL   *)
(* and Len + 1 for the end marker.                                         *)
(***************************************************************************)
\* An entry holds an integer when its bytes are a canonical integer.
zipEntry(s) == tryObjectEncoding(createStringObject(s))

ziplistLen(zl) == Len(zl)

ziplistPush(zl, s, where) ==
    IF where = REDIS_HEAD THEN <<zipEntry(s)>> \o zl ELSE Append(zl, zipEntry(s))

ziplistIndex(zl, index) ==
    LET pos == IF index < 0 THEN Len(zl) + index + 1 ELSE index + 1
    IN IF pos >= 1 /\ pos <= Len(zl) THEN pos ELSE 0

ziplistNext(zl, p) == IF p >= 1 /\ p < Len(zl) THEN p + 1 ELSE 0

ziplistPrev(zl, p) ==
    IF p = Len(zl) + 1 THEN (IF Len(zl) = 0 THEN 0 ELSE Len(zl))
    ELSE IF p <= 1 THEN 0 ELSE p - 1

\* Deletes the entry under the cursor; the cursor then addresses what follows.
ziplistDelete(zl, p) == SubSeq(zl, 1, p - 1) \o SubSeq(zl, p + 1, Len(zl))

\* Inserts in front of the cursor (at the tail when it is the end marker).
ziplistInsert(zl, p, s) ==
    SubSeq(zl, 1, p - 1) \o <<zipEntry(s)>> \o SubSeq(zl, p, Len(zl))

ziplistCompare(zl, p, s) ==
    IF p < 1 \/ p > Len(zl) THEN FALSE
    ELSE IF zl[p].encoding = "raw" THEN zl[p].ptr = s
    ELSE zipEntry(s).encoding = "int" /\ zipEntry(s).ptr = zl[p].ptr

ziplistDeleteRange(zl, index, num) ==
    LET p == ziplistIndex(zl, index)
    IN IF p = 0 THEN zl
       ELSE SubSeq(zl, 1, p - 1) \o SubSeq(zl, p + num, Len(zl))

\* The literal an iterator makes of a packed entry (tlistNext).
litFromZipEntry(e) ==
    IF e.encoding = "raw" THEN litFromBuffer(e.ptr) ELSE litFromLongLong(e.ptr)

\* listIndex of the linked list: the node position, 0 for NULL.
listIndex(l, index) ==
    LET pos == IF index < 0 THEN Len(l) + index + 1 ELSE index + 1
    IN IF pos >= 1 /\ pos <= Len(l) THEN pos ELSE 0

\* adlist: positions of the nodes of a linked list, 0 for NULL.
listFirst(l) == IF Len(l) = 0 THEN 0 ELSE 1
listLast(l) == Len(l)
listNextNode(l, ln) == IF ln < Len(l) THEN ln + 1 ELSE 0
listPrevNode(l, ln) == IF ln > 1 THEN ln - 1 ELSE 0
listDelNode(l, ln) == SubSeq(l, 1, ln - 1) \o SubSeq(l, ln + 1, Len(l))
\* listInsertNode: after the node when "after", else before it.
listInsertNode(l, ln, value, after) ==
    IF after THEN SubSeq(l, 1, ln) \o <<value>> \o SubSeq(l, ln + 1, Len(l))
    ELSE SubSeq(l, 1, ln - 1) \o <<value>> \o SubSeq(l, ln, Len(l))

(***************************************************************************)
(* List API (t_list.c).  A list object is [type, encoding, ptr] with ptr    *)
(* the sequence of packed entries or of node values.                       *)
(***************************************************************************)
MapSeq(f(_), seq) == [i \in 1..Len(seq) |-> f(seq[i])]

tlistConvObject(e) == litGetObject(litFromZipEntry(e))

tlistConvert(lobj, encoding) ==
    IF lobj.encoding = encoding THEN lobj
    ELSE IF lobj.encoding = "ziplist"
    THEN [lobj EXCEPT !.encoding = "linkedlist",
                      !.ptr = MapSeq(tlistConvObject, lobj.ptr)]
    ELSE lobj

\* tlistTryConversion that lets a value one byte too long stay packed.
tlistTryConversion_offByOne(subject, value) ==
    IF subject.encoding # "ziplist" THEN subject
    ELSE IF value.encoding = "raw" /\ sdslen(value.ptr) > list_max_ziplist_value + 1
    THEN tlistConvert(subject, "linkedlist")
    ELSE subject

tlistTryConversion(subject, value) ==
    IF subject.encoding # "ziplist" THEN subject
    ELSE IF value.encoding = "raw" /\ sdslen(value.ptr) > list_max_ziplist_value
    THEN tlistConvert(subject, "linkedlist")
    ELSE subject

\* tlistPush that adds to a linked list at the tail whatever the end asked.
tlistPush_linkedTail(subject, value, where) ==
    LET s1 == tlistTryConversion(subject, value)
        s2 == IF s1.encoding = "ziplist"
                 /\ ziplistLen(s1.ptr) >= list_max_ziplist_entries
              THEN tlistConvert(s1, "linkedlist") ELSE s1
    IN IF s2.encoding = "ziplist"
       THEN [s2 EXCEPT !.ptr = ziplistPush(@, getDecodedObject(value).ptr, where)]
       ELSE [s2 EXCEPT !.ptr = Append(@, value)]

tlistPush(subject, value, where) ==
    LET s1 == tlistTryConversion(subject, value)
        s2 == IF s1.encoding = "ziplist"
                 /\ ziplistLen(s1.ptr) >= list_max_ziplist_entries
              THEN tlistConvert(s1, "linkedlist") ELSE s1
    IN IF s2.encoding = "ziplist"
       THEN [s2 EXCEPT !.ptr = ziplistPush(@, getDecodedObject(value).ptr, where)]
       ELSE IF where = REDIS_HEAD
       THEN [s2 EXCEPT !.ptr = <<value>> \o @]
       ELSE [s2 EXCEPT !.ptr = Append(@, value)]

NOVALUE == [encoding |-> "none", ptr |-> 0]

\* tlistPop that packs a linked list again once it is short enough.
tlistPop_repack(subject, where) ==
    IF subject.encoding = "ziplist"
    THEN LET p == ziplistIndex(subject.ptr, IF where = REDIS_HEAD THEN 0 ELSE -1)
         IN IF p = 0 THEN [obj |-> subject, value |-> NOVALUE]
            ELSE [obj |-> [subject EXCEPT !.ptr = ziplistDelete(@, p)],
                  value |-> IF subject.ptr[p].encoding = "raw"
                            THEN createStringObject(subject.ptr[p].ptr)
                            ELSE createStringObjectFromLongLong(subject.ptr[p].ptr)]
    ELSE LET ln == IF where = REDIS_HEAD THEN listFirst(subject.ptr)
                   ELSE listLast(subject.ptr)
             l == listDelNode(subject.ptr, ln)
         IN IF ln = 0 THEN [obj |-> subject, value |-> NOVALUE]
            ELSE [obj |-> IF Len(l) <= list_max_ziplist_entries
                             /\ \A i \in 1..Len(l) :
                                    sdslen(Bytes(l[i])) <= list_max_ziplist_value
                          THEN [subject EXCEPT
                                    !.encoding = "ziplist",
                                    !.ptr = [i \in 1..Len(l) |-> zipEntry(Bytes(l[i]))]]
                          ELSE [subject EXCEPT !.ptr = l],
                  value |-> subject.ptr[ln]]

\* tlistPop: the list after the pop and the popped object (NOVALUE for NULL).
tlistPop(subject, where) ==
    IF subject.encoding = "ziplist"
    THEN LET p == ziplistIndex(subject.ptr, IF where = REDIS_HEAD THEN 0 ELSE -1)
         IN IF p = 0 THEN [obj |-> subject, value |-> NOVALUE]
            ELSE [obj |-> [subject EXCEPT !.ptr = ziplistDelete(@, p)],
                  value |-> IF subject.ptr[p].encoding = "raw"
                            THEN createStringObject(subject.ptr[p].ptr)
                            ELSE createStringObjectFromLongLong(subject.ptr[p].ptr)]
    ELSE LET ln == IF where = REDIS_HEAD THEN listFirst(subject.ptr)
                   ELSE listLast(subject.ptr)
         IN IF ln = 0 THEN [obj |-> subject, value |-> NOVALUE]
            ELSE [obj |-> [subject EXCEPT !.ptr = listDelNode(@, ln)],
                  value |-> subject.ptr[ln]]

tlistLength(lobj) == Len(lobj.ptr)

(***************************************************************************)
(* Blocking registry (t_list.c).                                           *)
(***************************************************************************)
\* The registry db->blocking_keys is a dict from keys to lists of clients:
\* a function whose domain holds the keys that have an entry.
dictSet(d, k, val) == [x \in (DOMAIN d) \cup {k} |-> IF x = k THEN val ELSE d[x]]
dictUnset(d, k) == [x \in (DOMAIN d) \ {k} |-> d[x]]
NoDict == [x \in {} |-> <<>>]

\* listDelNode(l, listSearchKey(l, x)): the first node holding x is removed.
RemoveFirst(seq, x) ==
    LET i == CHOOSE j \in 1..Len(seq) :
                 seq[j] = x /\ \A h \in 1..(j - 1) : seq[h] # x
    IN SubSeq(seq, 1, i - 1) \o SubSeq(seq, i + 1, Len(seq))

InSeq(seq, x) == \E i \in 1..Len(seq) : seq[i] = x

\* Variant: the client joins the list of the key at its head.
blockForKeysEnqueue_head(l, c) == <<c>> \o l

\* Line 739: the client joins the list of the key.
blockForKeysEnqueue(l, c) == Append(l, c)

RECURSIVE blockForKeysLoop(_, _, _, _)
\* The for loop of blockForKeys over keys[j .. numkeys-1].
blockForKeysLoop(bk, c, keys, j) ==
    IF j > Len(keys) THEN bk
    ELSE LET l == IF keys[j] \in DOMAIN bk THEN bk[keys[j]] ELSE <<>>
         IN blockForKeysLoop(dictSet(bk, keys[j], blockForKeysEnqueue(l, c)),
                             c, keys, j + 1)

blockForKeys(s, c, keys, timeout, target) ==
    [s EXCEPT !.bpop[c] = [keys |-> keys, timeout |-> timeout, target |-> target],
              !.blocking_keys = blockForKeysLoop(@, c, keys, 1),
              !.flags[c] = @ \cup {"REDIS_BLOCKED"},
              !.bpop_blocked_clients = @ + 1]

\* Variant: the list stays in the registry when its last client leaves.
unblockRemove_keepEmpty(bk, key, c) == dictSet(bk, key, RemoveFirst(bk[key], c))

\* Lines 759-762: the client leaves the list of the key, and an empty list
\* leaves the registry.
unblockRemove(bk, key, c) ==
    LET l == RemoveFirst(bk[key], c)
    IN IF Len(l) = 0 THEN dictUnset(bk, key) ELSE dictSet(bk, key, l)

RECURSIVE unblockLoop_firstKey(_, _, _)
\* Variant: only the registration under the first key is cleared.
unblockLoop_firstKey(s, c, j) ==
    IF j > 1 THEN s
    ELSE LET key == s.bpop[c].keys[j]
         IN IF key \notin DOMAIN s.blocking_keys
            THEN Panic(s, "unblockClientWaitingData: de != NULL")
            ELSE IF ~InSeq(s.blocking_keys[key], c)
            THEN Panic(s, "unblockClientWaitingData: listDelNode(NULL)")
            ELSE unblockLoop_firstKey(
                     [s EXCEPT !.blocking_keys = unblockRemove(@, key, c)], c, j + 1)

RECURSIVE unblockLoop(_, _, _)
\* The for loop of unblockClientWaitingData over c->bpop.keys[j .. count-1].
unblockLoop(s, c, j) ==
    IF j > Len(s.bpop[c].keys) THEN s
    ELSE LET key == s.bpop[c].keys[j]
         IN IF key \notin DOMAIN s.blocking_keys
            THEN Panic(s, "unblockClientWaitingData: de != NULL")
            ELSE IF ~InSeq(s.blocking_keys[key], c)
            THEN Panic(s, "unblockClientWaitingData: listDelNode(NULL)")
            ELSE unblockLoop([s EXCEPT !.blocking_keys = unblockRemove(@, key, c)],
                             c, j + 1)

unblockClientWaitingData(s, c) ==
    IF s.bpop[c].keys = <<>>
    THEN Panic(s, "unblockClientWaitingData: c->bpop.keys != NULL")
    ELSE LET s1 == unblockLoop(s, c, 1)
         IN [s1 EXCEPT !.bpop[c].keys = <<>>,
                       !.bpop[c].target = NOKEY,
                       !.flags[c] = (@ \ {"REDIS_BLOCKED"}) \cup {"REDIS_UNBLOCKED"},
                       !.bpop_blocked_clients = @ - 1,
                       !.unblocked_clients = Append(@, c)]

\* Applies a list operation to the object stored under key.
tlistPushKey(s, key, value, where) ==
    [s EXCEPT !.db[key] = tlistPush(@, value, where)]

RECURSIVE handleClientsLoop(_, _, _, _)
RECURSIVE rpoplpushHandlePush(_, _, _, _, _)

\* Lines 807-809: the receiver is the first client of the list.
handleClientsReceiver(clients) == Head(clients)

handleClientsWaitingListPush(s, c, key, ele) ==
    IF key \notin DOMAIN s.blocking_keys THEN [s |-> s, ret |-> FALSE]
    ELSE handleClientsLoop(s, key, ele, Len(s.blocking_keys[key]))

\* handleClientsLoop that stops at the first waiter whose target is not a
\* list and reports the value as delivered.
handleClientsLoop_stopOnError(s, key, ele, numclients) ==
    IF numclients = 0 THEN [s |-> s, ret |-> FALSE]
    ELSE IF key \notin DOMAIN s.blocking_keys
    THEN [s |-> Panic(s, "handleClientsWaitingListPush: ln != NULL"), ret |-> FALSE]
    ELSE LET receiver == handleClientsReceiver(s.blocking_keys[key])
             dstkey == s.bpop[receiver].target
             s1 == unblockClientWaitingData(s, receiver)
         IN IF dstkey = NOKEY
            THEN [s |-> addReplyBulk(
                          addReplyBulk(addReplyMultiBulkLen(s1, receiver, 2),
                                       receiver, createStringObject(key)),
                          receiver, ele),
                  ret |-> TRUE]
            ELSE LET dstobj == lookupKey(s1, dstkey)
                 IN IF dstobj # NULL /\ dstobj.type # "list"
                    THEN [s |-> addReply(s1, receiver, shared_wrongtypeerr),
                          ret |-> TRUE]
                    ELSE [s |-> rpoplpushHandlePush(s1, receiver, dstkey, dstobj, ele),
                          ret |-> TRUE]

\* The while (numclients--) loop of handleClientsWaitingListPush.  The list
\* "clients" is the one the registry holds under key; unblocking its last
\* client releases it.  The assertion of line 814 then reads the head of
\* the released list: what the allocator leaves there is NULL or a link to
\* a free block of the size of a list, never the node ln, so the assertion
\* passes whether the list was released or not.
handleClientsLoop(s, key, ele, numclients) ==
    IF numclients = 0 THEN [s |-> s, ret |-> FALSE]
    ELSE IF key \notin DOMAIN s.blocking_keys
    THEN [s |-> Panic(s, "handleClientsWaitingListPush: ln != NULL"), ret |-> FALSE]
    ELSE LET receiver == handleClientsReceiver(s.blocking_keys[key])
             dstkey == s.bpop[receiver].target
             s1 == unblockClientWaitingData(s, receiver)
         IN IF dstkey = NOKEY
            THEN [s |-> addReplyBulk(
                          addReplyBulk(addReplyMultiBulkLen(s1, receiver, 2),
                                       receiver, createStringObject(key)),
                          receiver, ele),
                  ret |-> TRUE]
            ELSE LET dstobj == lookupKey(s1, dstkey)
                 IN IF dstobj # NULL /\ dstobj.type # "list"
                    THEN handleClientsLoop(addReply(s1, receiver, shared_wrongtypeerr),
                                           key, ele, numclients - 1)
                    ELSE [s |-> rpoplpushHandlePush(s1, receiver, dstkey, dstobj, ele),
                          ret |-> TRUE]

\* rpoplpushHandlePush that adds the value at the tail of the target.
rpoplpushHandlePush_tail(s, c, dstkey, dstobj, value) ==
    LET h == handleClientsWaitingListPush(s, c, dstkey, value)
        s1 == IF h.ret THEN h.s
              ELSE IF dstobj = NULL
              THEN tlistPushKey(dbAdd(h.s, dstkey, createZiplistObject),
                                dstkey, value, REDIS_TAIL)
              ELSE tlistPushKey(incrDirty(h.s), dstkey, value, REDIS_TAIL)
    IN addReplyBulk(s1, c, value)

\* rpoplpushHandlePush that adds the value to the target although a waiter
\* of the target has taken it.
rpoplpushHandlePush_pushAlways(s, c, dstkey, dstobj, value) ==
    LET h == handleClientsWaitingListPush(s, c, dstkey, value)
        s1 == IF h.s.db[dstkey] = NULL
              THEN tlistPushKey(dbAdd(h.s, dstkey, createZiplistObject),
                                dstkey, value, REDIS_HEAD)
              ELSE tlistPushKey(incrDirty(h.s), dstkey, value, REDIS_HEAD)
    IN addReplyBulk(s1, c, value)

\* rpoplpushHandlePush that adds the value to the target without asking
\* for the waiters of the target.
rpoplpushHandlePush_noDeliver(s, c, dstkey, dstobj, value) ==
    LET s1 == IF dstobj = NULL
              THEN tlistPushKey(dbAdd(s, dstkey, createZiplistObject),
                                dstkey, value, REDIS_HEAD)
              ELSE tlistPushKey(incrDirty(s), dstkey, value, REDIS_HEAD)
    IN addReplyBulk(s1, c, value)

\* dstobj is the object found under dstkey by the caller (NULL if none).
rpoplpushHandlePush(s, c, dstkey, dstobj, value) ==
    LET h == handleClientsWaitingListPush(s, c, dstkey, value)
        s1 == IF h.ret THEN h.s
              ELSE IF dstobj = NULL
              THEN tlistPushKey(dbAdd(h.s, dstkey, createZiplistObject),
                                dstkey, value, REDIS_HEAD)
              ELSE tlistPushKey(incrDirty(h.s), dstkey, value, REDIS_HEAD)
    IN addReplyBulk(s1, c, value)

(***************************************************************************)
(* Set API (t_set.c).  An intset is the set of its integers, a hash table  *)
(* the set of its key objects (intset.c, dict.c: external).                *)
(***************************************************************************)
\* dictFind under setDictType: keys compare by their decoded bytes.
dictFind(d, o) == \E e \in d : equalStringObjects(e, o)
dictAdd(d, o) == d \cup {o}
dictDelete(d, o) == {e \in d : ~equalStringObjects(e, o)}

setTypeCreate(value) ==
    IF isObjectRepresentableAsLongLong(value)
    THEN createIntsetObject ELSE createSetObject

tsetConvObject(n) == litGetObject(litFromLongLong(n))

tsetConvert(sobj, encoding) ==
    IF sobj.encoding = "intset"
    THEN [sobj EXCEPT !.encoding = "hashtable",
                      !.ptr = {tsetConvObject(n) : n \in sobj.ptr}]
    ELSE sobj

tsetSize(sobj) == Cardinality(sobj.ptr)

\* tsetAddLiteral whose conversion for a non-integer starts an empty table.
tsetAddLiteral_freshTable(sobj, elelit) ==
    IF sobj.encoding = "intset"
    THEN IF litHasLongLong(elelit)
         THEN LET llval == litGetLongLong(elelit)
              IN IF llval \notin sobj.ptr
                 THEN LET added == [sobj EXCEPT !.ptr = @ \cup {llval}]
                      IN [obj |-> IF tsetSize(added) > set_max_intset_entries
                                  THEN tsetConvert(added, "hashtable") ELSE added,
                          ret |-> 1]
                 ELSE [obj |-> sobj, ret |-> 0]
         ELSE [obj |-> [createSetObject EXCEPT !.ptr = dictAdd(@, litGetObject(elelit))],
               ret |-> 1]
    ELSE LET eleobj == litGetObject(elelit)
         IN IF ~dictFind(sobj.ptr, eleobj)
            THEN [obj |-> [sobj EXCEPT !.ptr = dictAdd(@, eleobj)], ret |-> 1]
            ELSE [obj |-> sobj, ret |-> 0]

\* tsetAddLiteral that never converts an intset for its number of entries.
tsetAddLiteral_noCountCheck(sobj, elelit) ==
    IF sobj.encoding = "intset"
    THEN IF litHasLongLong(elelit)
         THEN LET llval == litGetLongLong(elelit)
              IN IF llval \notin sobj.ptr
                 THEN [obj |-> [sobj EXCEPT !.ptr = @ \cup {llval}], ret |-> 1]
                 ELSE [obj |-> sobj, ret |-> 0]
         ELSE [obj |-> [tsetConvert(sobj, "hashtable") EXCEPT
                            !.ptr = dictAdd(@, litGetObject(elelit))],
               ret |-> 1]
    ELSE LET eleobj == litGetObject(elelit)
         IN IF ~dictFind(sobj.ptr, eleobj)
            THEN [obj |-> [sobj EXCEPT !.ptr = dictAdd(@, eleobj)], ret |-> 1]
            ELSE [obj |-> sobj, ret |-> 0]

\* tsetAddLiteral: the set after the call and the value returned.
tsetAddLiteral(sobj, elelit) ==
    IF sobj.encoding = "intset"
    THEN IF litHasLongLong(elelit)
         THEN LET llval == litGetLongLong(elelit)
              IN IF llval \notin sobj.ptr
                 THEN LET added == [sobj EXCEPT !.ptr = @ \cup {llval}]
                      IN [obj |-> IF tsetSize(added) > set_max_intset_entries
                                  THEN tsetConvert(added, "hashtable") ELSE added,
                          ret |-> 1]
                 ELSE [obj |-> sobj, ret |-> 0]
         ELSE [obj |-> [tsetConvert(sobj, "hashtable") EXCEPT
                            !.ptr = dictAdd(@, litGetObject(elelit))],
               ret |-> 1]
    ELSE LET eleobj == litGetObject(elelit)
         IN IF ~dictFind(sobj.ptr, eleobj)
            THEN [obj |-> [sobj EXCEPT !.ptr = dictAdd(@, eleobj)], ret |-> 1]
            ELSE [obj |-> sobj, ret |-> 0]

tsetAddObject(sobj, eleobj) == tsetAddLiteral(sobj, litFromObject(eleobj))

tsetRemoveLiteral(sobj, elelit) ==
    IF sobj.encoding = "intset"
    THEN IF litHasLongLong(elelit) /\ litGetLongLong(elelit) \in sobj.ptr
         THEN [obj |-> [sobj EXCEPT !.ptr = @ \ {litGetLongLong(elelit)}], ret |-> 1]
         ELSE [obj |-> sobj, ret |-> 0]
    ELSE LET eleobj == litGetObject(elelit)
         IN IF dictFind(sobj.ptr, eleobj)
            THEN [obj |-> [sobj EXCEPT !.ptr = dictDelete(@, eleobj)], ret |-> 1]
            ELSE [obj |-> sobj, ret |-> 0]

tsetRemoveObject(sobj, eleobj) == tsetRemoveLiteral(sobj, litFromObject(eleobj))

\* tsetFindLiteral that probes an intset with integer-encoded objects only.
tsetFindLiteral_encodedOnly(sobj, elelit) ==
    IF sobj.encoding = "intset"
    THEN elelit.val.encoding = "int" /\ elelit.val.ptr \in sobj.ptr
    ELSE dictFind(sobj.ptr, litGetObject(elelit))

tsetFindLiteral(sobj, elelit) ==
    IF sobj.encoding = "intset"
    THEN litHasLongLong(elelit) /\ litGetLongLong(elelit) \in sobj.ptr
    ELSE dictFind(sobj.ptr, litGetObject(elelit))

tsetFindObject(sobj, eleobj) == tsetFindLiteral(sobj, litFromObject(eleobj))

(***************************************************************************)
(* List commands (t_list.c).  Arguments are the byte strings of c->argv.   *)
(***************************************************************************)
\* Lines 200-203 of pushGenericCommand: the insert and its reply.
pushGenericInsert(s, c, key, value, where) ==
    LET s1 == tlistPushKey(s, key, value, where)
    IN incrDirty(addReplyLongLong(s1, c, tlistLength(s1.db[key])))

\* Variant: a missing list is created before the waiters are consulted.
pushGenericCommand_createFirst(s, c, key, val, where) ==
    LET lobj == lookupKey(s, key)
        value == tryObjectEncoding(createStringObject(val))
        s0 == IF lobj = NULL THEN dbAdd(s, key, createZiplistObject) ELSE s
        h == handleClientsWaitingListPush(s0, c, key, value)
    IN IF lobj # NULL /\ lobj.type # "list" THEN addReply(s, c, shared_wrongtypeerr)
       ELSE IF h.ret THEN addReply(h.s, c, shared_cone)
       ELSE pushGenericInsert(h.s, c, key, value, where)

\* Variant: the value is inserted although a waiter has received it.
pushGenericCommand_insertDelivered(s, c, key, val, where) ==
    LET lobj == lookupKey(s, key)
        value == tryObjectEncoding(createStringObject(val))
        h == handleClientsWaitingListPush(s, c, key, value)
    IN IF lobj = NULL
       THEN pushGenericInsert(dbAdd(h.s, key, createZiplistObject),
                              c, key, value, where)
       ELSE IF lobj.type # "list" THEN addReply(s, c, shared_wrongtypeerr)
       ELSE pushGenericInsert(h.s, c, key, value, where)

pushGenericCommand(s, c, key, val, where) ==
    LET lobj == lookupKey(s, key)
        value == tryObjectEncoding(createStringObject(val))
        h == handleClientsWaitingListPush(s, c, key, value)
    IN IF lobj = NULL
       THEN IF h.ret THEN addReply(h.s, c, shared_cone)
            ELSE pushGenericInsert(dbAdd(h.s, key, createZiplistObject),
                                   c, key, value, where)
       ELSE IF lobj.type # "list" THEN addReply(s, c, shared_wrongtypeerr)
       ELSE IF h.ret THEN addReply(h.s, c, shared_cone)
       ELSE pushGenericInsert(h.s, c, key, value, where)

popGenericCommand(s, c, key, where) ==
    LET o == lookupKey(s, key)
    IN IF o = NULL THEN addReply(s, c, shared_nullbulk)
       ELSE IF o.type # "list" THEN addReply(s, c, shared_wrongtypeerr)
       ELSE LET r == tlistPop(o, where)
            IN IF r.value = NOVALUE THEN addReply(s, c, shared_nullbulk)
               ELSE LET s1 == addReplyBulk([s EXCEPT !.db[key] = r.obj], c, r.value)
                        s2 == IF tlistLength(r.obj) = 0 THEN dbDelete(s1, key) ELSE s1
                    IN incrDirty(s2)

\* Variant: the source is popped before the type of the destination is checked.
rpoplpushCommand_popFirst(s, c, src, dst) ==
    LET sobj == lookupKey(s, src)
    IN IF sobj = NULL THEN addReply(s, c, shared_nullbulk)
       ELSE IF sobj.type # "list" THEN addReply(s, c, shared_wrongtypeerr)
       ELSE IF tlistLength(sobj) = 0 THEN addReply(s, c, shared_nullbulk)
       ELSE LET dobj == lookupKey(s, dst)
                r == tlistPop(sobj, REDIS_TAIL)
                s1 == [s EXCEPT !.db[src] = r.obj]
            IN IF dobj # NULL /\ dobj.type # "list"
               THEN addReply(s1, c, shared_wrongtypeerr)
               ELSE LET s2 == rpoplpushHandlePush(s1, c, dst, dobj, r.value)
                        s3 == IF tlistLength(s2.db[src]) = 0
                              THEN dbDelete(s2, src) ELSE s2
                    IN incrDirty(s3)

\* rpoplpushCommand that takes the element from the head of the source.
rpoplpushCommand_popHead(s, c, src, dst) ==
    LET sobj == lookupKey(s, src)
    IN IF sobj = NULL THEN addReply(s, c, shared_nullbulk)
       ELSE IF sobj.type # "list" THEN addReply(s, c, shared_wrongtypeerr)
       ELSE IF tlistLength(sobj) = 0 THEN addReply(s, c, shared_nullbulk)
       ELSE LET dobj == lookupKey(s, dst)
            IN IF dobj # NULL /\ dobj.type # "list"
               THEN addReply(s, c, shared_wrongtypeerr)
               ELSE LET r == tlistPop(sobj, REDIS_HEAD)
                        s1 == [s EXCEPT !.db[src] = r.obj]
                        s2 == rpoplpushHandlePush(s1, c, dst, dobj, r.value)
                        s3 == IF tlistLength(s2.db[src]) = 0
                              THEN dbDelete(s2, src) ELSE s2
                    IN incrDirty(s3)

rpoplpushCommand(s, c, src, dst) ==
    LET sobj == lookupKey(s, src)
    IN IF sobj = NULL THEN addReply(s, c, shared_nullbulk)
       ELSE IF sobj.type # "list" THEN addReply(s, c, shared_wrongtypeerr)
       ELSE IF tlistLength(sobj) = 0 THEN addReply(s, c, shared_nullbulk)
       ELSE LET dobj == lookupKey(s, dst)
            IN IF dobj # NULL /\ dobj.type # "list"
               THEN addReply(s, c, shared_wrongtypeerr)
               ELSE LET r == tlistPop(sobj, REDIS_TAIL)
                        s1 == [s EXCEPT !.db[src] = r.obj]
                        s2 == rpoplpushHandlePush(s1, c, dst, dobj, r.value)
                        s3 == IF tlistLength(s2.db[src]) = 0
                              THEN dbDelete(s2, src) ELSE s2
                    IN incrDirty(s3)

\* getTimeoutFromObjectOrReply: ok, the absolute timeout, and the state with
\* the error reply when not ok.
\* getTimeoutFromObjectOrReply without the test for a negative value.
getTimeoutFromObjectOrReply_noSign(s, c, object) ==
    IF ~isStringRepresentableAsLong(object)
    THEN [ok |-> FALSE, timeout |-> 0,
          s |-> addReplyError(s, c, "timeout is not an integer or out of range")]
    ELSE LET tval == string2ll(object)
         IN [ok |-> TRUE, s |-> s,
             timeout |-> IF tval > 0 THEN tval + unixtime ELSE tval]

getTimeoutFromObjectOrReply(s, c, object) ==
    IF ~isStringRepresentableAsLong(object)
    THEN [ok |-> FALSE, timeout |-> 0,
          s |-> addReplyError(s, c, "timeout is not an integer or out of range")]
    ELSE LET tval == string2ll(object)
         IN IF tval < 0
            THEN [ok |-> FALSE, timeout |-> 0,
                  s |-> addReplyError(s, c, "timeout is negative")]
            ELSE [ok |-> TRUE, s |-> s,
                  timeout |-> IF tval > 0 THEN tval + unixtime ELSE tval]

RECURSIVE blockingPopLoop_firstMissing(_, _, _, _, _, _)
\* blockingPopLoop that blocks at the first missing key without looking at
\* the keys behind it.
blockingPopLoop_firstMissing(s, c, keys, timeout, where, j) ==
    IF j > Len(keys)
    THEN IF "REDIS_MULTI" \in s.flags[c]
         THEN addReply(s, c, shared_nullmultibulk)
         ELSE blockForKeys(s, c, keys, timeout, NOKEY)
    ELSE LET o == lookupKey(s, keys[j])
         IN IF o = NULL
            THEN IF "REDIS_MULTI" \in s.flags[c]
                 THEN addReply(s, c, shared_nullmultibulk)
                 ELSE blockForKeys(s, c, keys, timeout, NOKEY)
            ELSE IF o.type # "list" THEN addReply(s, c, shared_wrongtypeerr)
            ELSE IF tlistLength(o) # 0
            THEN popGenericCommand(
                     addReplyBulk(addReplyMultiBulkLen(s, c, 2), c,
                                  createStringObject(keys[j])),
                     c, keys[j], where)
            ELSE blockingPopLoop_firstMissing(s, c, keys, timeout, where, j + 1)

RECURSIVE blockingPopLoop(_, _, _, _, _, _)
\* The for loop of blockingPopGenericCommand over the keys from index j, and
\* what follows it.
blockingPopLoop(s, c, keys, timeout, where, j) ==
    IF j > Len(keys)
    THEN IF "REDIS_MULTI" \in s.flags[c]
         THEN addReply(s, c, shared_nullmultibulk)
         ELSE blockForKeys(s, c, keys, timeout, NOKEY)
    ELSE LET o == lookupKey(s, keys[j])
         IN IF o = NULL THEN blockingPopLoop(s, c, keys, timeout, where, j + 1)
            ELSE IF o.type # "list" THEN addReply(s, c, shared_wrongtypeerr)
            ELSE IF tlistLength(o) # 0
            THEN popGenericCommand(
                     addReplyBulk(addReplyMultiBulkLen(s, c, 2), c,
                                  createStringObject(keys[j])),
                     c, keys[j], where)
            ELSE blockingPopLoop(s, c, keys, timeout, where, j + 1)

\* blockingPopGenericCommand popping at the head for BRPOP too.
blockingPopGenericCommand_head(s, c, keys, timeoutArg, where) ==
    LET t == getTimeoutFromObjectOrReply(s, c, timeoutArg)
    IN IF ~t.ok THEN t.s
       ELSE blockingPopLoop(s, c, keys, t.timeout, REDIS_HEAD, 1)

blockingPopGenericCommand(s, c, keys, timeoutArg, where) ==
    LET t == getTimeoutFromObjectOrReply(s, c, timeoutArg)
    IN IF ~t.ok THEN t.s
       ELSE blockingPopLoop(s, c, keys, t.timeout, where, 1)

\* brpoplpushCommand that blocks on a missing source inside a transaction too.
brpoplpushCommand_blockInMulti(s, c, src, dst, timeoutArg) ==
    LET t == getTimeoutFromObjectOrReply(s, c, timeoutArg)
        key == lookupKey(s, src)
    IN IF ~t.ok THEN t.s
       ELSE IF key = NULL
       THEN blockForKeys(s, c, <<src>>, t.timeout, dst)
       ELSE IF key.type # "list" THEN addReply(s, c, shared_wrongtypeerr)
       ELSE IF ~(tlistLength(key) > 0)
       THEN Panic(s, "brpoplpush: tlistLength(key) > 0")
       ELSE rpoplpushCommand(s, c, src, dst)

brpoplpushCommand(s, c, src, dst, timeoutArg) ==
    LET t == getTimeoutFromObjectOrReply(s, c, timeoutArg)
        key == lookupKey(s, src)
    IN IF ~t.ok THEN t.s
       ELSE IF key = NULL
       THEN IF "REDIS_MULTI" \in s.flags[c]
            THEN addReply(s, c, shared_nullbulk)
            ELSE blockForKeys(s, c, <<src>>, t.timeout, dst)
       ELSE IF key.type # "list" THEN addReply(s, c, shared_wrongtypeerr)
       ELSE IF ~(tlistLength(key) > 0)
       THEN Panic(s, "brpoplpush: tlistLength(key) > 0")
       ELSE rpoplpushCommand(s, c, src, dst)

\* refval of pushxGenericCommand when it is NULL.
NOREF == [encoding |-> "none", ptr |-> ""]

\* strcasecmp(a, b) == 0 for the words of LINSERT.
tolower(a) ==
    CASE a \in {"AFTER", "After", "after"} -> "after"
      [] a \in {"BEFORE", "Before", "before"} -> "before"
      [] OTHER -> a
strcasecmp0(a, b) == tolower(a) = tolower(b)

\* ziplistGet: the object made of the entry under the cursor (lindexCommand).
ziplistGetObject(e) ==
    IF e.encoding = "raw" THEN createStringObject(e.ptr)
    ELSE createStringObjectFromLongLong(e.ptr)

RECURSIVE pushxZiplistScan(_, _, _, _, _)
\* Lines 238-265: the scan of the packed list from the cursor eptr.
pushxZiplistScan(lobj, eptr, refval, rawval, where) ==
    IF eptr = 0 THEN [obj |-> lobj, inserted |-> 0]
    ELSE IF ziplistCompare(lobj.ptr, eptr, refval)
    THEN LET nx == ziplistNext(lobj.ptr, eptr)
             zl == IF where = REDIS_TAIL
                   THEN IF nx # 0 THEN ziplistInsert(lobj.ptr, nx, rawval)
                        ELSE ziplistPush(lobj.ptr, rawval, REDIS_TAIL)
                   ELSE ziplistInsert(lobj.ptr, eptr, rawval)
             o1 == [lobj EXCEPT !.ptr = zl]
         IN [obj |-> IF ziplistLen(zl) > list_max_ziplist_entries
                     THEN tlistConvert(o1, "linkedlist") ELSE o1,
             inserted |-> 1]
    ELSE pushxZiplistScan(lobj, ziplistNext(lobj.ptr, eptr), refval, rawval, where)

RECURSIVE pushxListScan(_, _, _, _, _)
\* Lines 271-285: the scan of the linked list from the node ln.
pushxListScan(lobj, ln, refval, val, where) ==
    IF ln = 0 THEN [obj |-> lobj, inserted |-> 0]
    ELSE IF equalStringObjects(lobj.ptr[ln], refval)
    THEN [obj |-> [lobj EXCEPT !.ptr = listInsertNode(@, ln, val, where = REDIS_TAIL)],
          inserted |-> 1]
    ELSE pushxListScan(lobj, listNextNode(lobj.ptr, ln), refval, val, where)

\* refval is the pivot object of LINSERT or NOREF; val is the value object.
pushxGenericCommand(s, c, key, refval, val, where) ==
    LET lobj0 == lookupKey(s, key)
    IN IF lobj0 = NULL THEN addReply(s, c, shared_czero)
       ELSE IF lobj0.type # "list" THEN addReply(s, c, shared_wrongtypeerr)
       ELSE IF refval # NOREF
       THEN IF refval.encoding # "raw"
            THEN Panic(s, "pushxGenericCommand: refval->encoding == REDIS_ENCODING_RAW")
            ELSE LET lobj == tlistTryConversion(lobj0, val)
                     r == IF lobj.encoding = "ziplist"
                          THEN pushxZiplistScan(lobj, ziplistIndex(lobj.ptr, 0), refval.ptr,
                                                getDecodedObject(val).ptr, where)
                          ELSE pushxListScan(lobj, listFirst(lobj.ptr), refval, val, where)
                     s1 == [s EXCEPT !.db[key] = r.obj]
                 IN IF r.inserted = 1
                    THEN addReplyLongLong(incrDirty(s1), c, tlistLength(r.obj))
                    ELSE addReply(s1, c, shared_cnegone)
       ELSE LET o == tlistPush(lobj0, val, where)
            IN addReplyLongLong(incrDirty([s EXCEPT !.db[key] = o]), c, tlistLength(o))

lpushxCommand(s, c, key, val) ==
    pushxGenericCommand(s, c, key, NOREF, tryObjectEncoding(createStringObject(val)),
                        REDIS_HEAD)

rpushxCommand(s, c, key, val) ==
    pushxGenericCommand(s, c, key, NOREF, tryObjectEncoding(createStringObject(val)),
                        REDIS_TAIL)

\* linsertCommand with the two sides of the pivot exchanged.
linsertCommand_swapped(s, c, key, whereArg, pivot, val) ==
    LET value == tryObjectEncoding(createStringObject(val))
    IN IF strcasecmp0(whereArg, "after")
       THEN pushxGenericCommand(s, c, key, createStringObject(pivot), value, REDIS_HEAD)
       ELSE IF strcasecmp0(whereArg, "before")
       THEN pushxGenericCommand(s, c, key, createStringObject(pivot), value, REDIS_TAIL)
       ELSE addReply(s, c, shared_syntaxerr)

linsertCommand(s, c, key, whereArg, pivot, val) ==
    LET value == tryObjectEncoding(createStringObject(val))
    IN IF strcasecmp0(whereArg, "after")
       THEN pushxGenericCommand(s, c, key, createStringObject(pivot), value, REDIS_TAIL)
       ELSE IF strcasecmp0(whereArg, "before")
       THEN pushxGenericCommand(s, c, key, createStringObject(pivot), value, REDIS_HEAD)
       ELSE addReply(s, c, shared_syntaxerr)

llenCommand(s, c, key) ==
    LET o == lookupKey(s, key)
    IN IF o = NULL THEN addReply(s, c, shared_czero)
       ELSE IF o.type # "list" THEN addReply(s, c, shared_wrongtypeerr)
       ELSE addReplyLongLong(s, c, tlistLength(o))

\* lindexCommand counting a negative index from one element too far.
lindexCommand_negOffByOne(s, c, key, indexArg) ==
    LET o == lookupKey(s, key)
        index == IF atoi(indexArg) < 0 THEN atoi(indexArg) - 1
                 ELSE atoi(indexArg)
    IN IF o = NULL THEN addReply(s, c, shared_nullbulk)
       ELSE IF o.type # "list" THEN addReply(s, c, shared_wrongtypeerr)
       ELSE IF o.encoding = "ziplist"
       THEN LET p == ziplistIndex(o.ptr, index)
            IN IF p # 0 THEN addReplyBulk(s, c, ziplistGetObject(o.ptr[p]))
               ELSE addReply(s, c, shared_nullbulk)
       ELSE LET ln == listIndex(o.ptr, index)
            IN IF ln # 0 THEN addReplyBulk(s, c, o.ptr[ln])
               ELSE addReply(s, c, shared_nullbulk)

lindexCommand(s, c, key, indexArg) ==
    LET o == lookupKey(s, key)
        index == atoi(indexArg)
    IN IF o = NULL THEN addReply(s, c, shared_nullbulk)
       ELSE IF o.type # "list" THEN addReply(s, c, shared_wrongtypeerr)
       ELSE IF o.encoding = "ziplist"
       THEN LET p == ziplistIndex(o.ptr, index)
            IN IF p # 0 THEN addReplyBulk(s, c, ziplistGetObject(o.ptr[p]))
               ELSE addReply(s, c, shared_nullbulk)
       ELSE LET ln == listIndex(o.ptr, index)
            IN IF ln # 0 THEN addReplyBulk(s, c, o.ptr[ln])
               ELSE addReply(s, c, shared_nullbulk)

\* lsetCommand that counts a refused index as a change.
lsetCommand_countsError(s, c, key, indexArg, val) ==
    LET o0 == lookupKey(s, key)
        index == atoi(indexArg)
        value == tryObjectEncoding(createStringObject(val))
    IN IF o0 = NULL THEN addReply(s, c, shared_nokeyerr)
       ELSE IF o0.type # "list" THEN addReply(s, c, shared_wrongtypeerr)
       ELSE LET o == tlistTryConversion(o0, value)
                s1 == [s EXCEPT !.db[key] = o]
            IN IF o.encoding = "ziplist"
               THEN LET p == ziplistIndex(o.ptr, index)
                    IN IF p = 0 THEN incrDirty(addReply(s1, c, shared_outofrangeerr))
                       ELSE incrDirty(addReply(
                                [s1 EXCEPT !.db[key].ptr =
                                     ziplistInsert(ziplistDelete(o.ptr, p), p,
                                                   getDecodedObject(value).ptr)],
                                c, shared_ok))
               ELSE LET ln == listIndex(o.ptr, index)
                    IN IF ln = 0 THEN incrDirty(addReply(s1, c, shared_outofrangeerr))
                       ELSE incrDirty(addReply([s1 EXCEPT !.db[key].ptr[ln] = value],
                                               c, shared_ok))

lsetCommand(s, c, key, indexArg, val) ==
    LET o0 == lookupKey(s, key)
        index == atoi(indexArg)
        value == tryObjectEncoding(createStringObject(val))
    IN IF o0 = NULL THEN addReply(s, c, shared_nokeyerr)
       ELSE IF o0.type # "list" THEN addReply(s, c, shared_wrongtypeerr)
       ELSE LET o == tlistTryConversion(o0, value)
                s1 == [s EXCEPT !.db[key] = o]
            IN IF o.encoding = "ziplist"
               THEN LET p == ziplistIndex(o.ptr, index)
                    IN IF p = 0 THEN addReply(s1, c, shared_outofrangeerr)
                       ELSE incrDirty(addReply(
                                [s1 EXCEPT !.db[key].ptr =
                                     ziplistInsert(ziplistDelete(o.ptr, p), p,
                                                   getDecodedObject(value).ptr)],
                                c, shared_ok))
               ELSE LET ln == listIndex(o.ptr, index)
                    IN IF ln = 0 THEN addReply(s1, c, shared_outofrangeerr)
                       ELSE incrDirty(addReply([s1 EXCEPT !.db[key].ptr[ln] = value],
                                               c, shared_ok))

RECURSIVE lrangeLoop(_, _, _, _, _)
\* The while (rangelen--) loops of lrangeCommand from the cursor p.
lrangeLoop(s, c, o, p, rangelen) ==
    IF rangelen = 0 THEN s
    ELSE IF o.encoding = "ziplist"
    THEN lrangeLoop(addReply(s, c, IF o.ptr[p].encoding = "raw"
                                   THEN ReplyBulk(o.ptr[p].ptr)
                                   ELSE ReplyBulk(ll2string(o.ptr[p].ptr))),
                    c, o, ziplistNext(o.ptr, p), rangelen - 1)
    ELSE lrangeLoop(addReplyBulk(s, c, o.ptr[p]), c, o, listNextNode(o.ptr, p),
                    rangelen - 1)

\* lrangeCommand that counts a negative end from one element too far.
lrangeCommand_negEnd(s, c, key, startArg, endArg) ==
    LET o == lookupKey(s, key)
    IN IF o = NULL THEN addReply(s, c, shared_emptymultibulk)
       ELSE IF o.type # "list" THEN addReply(s, c, shared_wrongtypeerr)
       ELSE LET llen == tlistLength(o)
                start0 == IF atoi(startArg) < 0 THEN llen + atoi(startArg)
                          ELSE atoi(startArg)
                end0 == IF atoi(endArg) < 0 THEN llen + atoi(endArg) - 1
                        ELSE atoi(endArg)
                start == IF start0 < 0 THEN 0 ELSE start0
            IN IF start > end0 \/ start >= llen
               THEN addReply(s, c, shared_emptymultibulk)
               ELSE LET end == IF end0 >= llen THEN llen - 1 ELSE end0
                        rangelen == (end - start) + 1
                    IN lrangeLoop(addReplyMultiBulkLen(s, c, rangelen), c, o,
                                  IF o.encoding = "ziplist"
                                  THEN ziplistIndex(o.ptr, start)
                                  ELSE listIndex(o.ptr, start),
                                  rangelen)

lrangeCommand(s, c, key, startArg, endArg) ==
    LET o == lookupKey(s, key)
    IN IF o = NULL THEN addReply(s, c, shared_emptymultibulk)
       ELSE IF o.type # "list" THEN addReply(s, c, shared_wrongtypeerr)
       ELSE LET llen == tlistLength(o)
                start0 == IF atoi(startArg) < 0 THEN llen + atoi(startArg)
                          ELSE atoi(startArg)
                end0 == IF atoi(endArg) < 0 THEN llen + atoi(endArg) ELSE atoi(endArg)
                start == IF start0 < 0 THEN 0 ELSE start0
            IN IF start > end0 \/ start >= llen
               THEN addReply(s, c, shared_emptymultibulk)
               ELSE LET end == IF end0 >= llen THEN llen - 1 ELSE end0
                        rangelen == (end - start) + 1
                    IN lrangeLoop(addReplyMultiBulkLen(s, c, rangelen), c, o,
                                  IF o.encoding = "ziplist"
                                  THEN ziplistIndex(o.ptr, start)
                                  ELSE listIndex(o.ptr, start),
                                  rangelen)

RECURSIVE ltrimDelNodes(_, _, _)
\* The for loops of ltrimCommand on the linked list: j nodes leave the head
\* (or the tail).
ltrimDelNodes(l, j, head) ==
    IF j = 0 THEN l
    ELSE ltrimDelNodes(listDelNode(l, IF head THEN listFirst(l) ELSE listLast(l)),
                       j - 1, head)

\* ltrimCommand without the deletion of the emptied key.
ltrimCommand_keepEmpty(s, c, key, startArg, endArg) ==
    LET o == lookupKey(s, key)
    IN IF o = NULL THEN addReply(s, c, shared_ok)
       ELSE IF o.type # "list" THEN addReply(s, c, shared_wrongtypeerr)
       ELSE LET llen == tlistLength(o)
                start0 == IF atoi(startArg) < 0 THEN llen + atoi(startArg)
                          ELSE atoi(startArg)
                end0 == IF atoi(endArg) < 0 THEN llen + atoi(endArg) ELSE atoi(endArg)
                start == IF start0 < 0 THEN 0 ELSE start0
                empty == start > end0 \/ start >= llen
                end == IF end0 >= llen THEN llen - 1 ELSE end0
                ltrim == IF empty THEN llen ELSE start
                rtrim == IF empty THEN 0 ELSE llen - end - 1
                ptr == IF o.encoding = "ziplist"
                       THEN ziplistDeleteRange(ziplistDeleteRange(o.ptr, 0, ltrim),
                                               -rtrim, rtrim)
                       ELSE ltrimDelNodes(ltrimDelNodes(o.ptr, ltrim, TRUE), rtrim, FALSE)
                s1 == [s EXCEPT !.db[key].ptr = ptr]
            IN addReply(incrDirty(s1), c, shared_ok)

\* ltrimCommand keeping one element less at the tail.
ltrimCommand_endExclusive(s, c, key, startArg, endArg) ==
    LET o == lookupKey(s, key)
    IN IF o = NULL THEN addReply(s, c, shared_ok)
       ELSE IF o.type # "list" THEN addReply(s, c, shared_wrongtypeerr)
       ELSE LET llen == tlistLength(o)
                start0 == IF atoi(startArg) < 0 THEN llen + atoi(startArg)
                          ELSE atoi(startArg)
                end0 == IF atoi(endArg) < 0 THEN llen + atoi(endArg) ELSE atoi(endArg)
                start == IF start0 < 0 THEN 0 ELSE start0
                empty == start >= end0 \/ start >= llen
                end == IF end0 >= llen THEN llen ELSE end0
                ltrim == IF empty THEN llen ELSE start
                rtrim == IF empty THEN 0 ELSE llen - end
                ptr == IF o.encoding = "ziplist"
                       THEN ziplistDeleteRange(ziplistDeleteRange(o.ptr, 0, ltrim),
                                               -rtrim, rtrim)
                       ELSE ltrimDelNodes(ltrimDelNodes(o.ptr, ltrim, TRUE), rtrim, FALSE)
                s1 == [s EXCEPT !.db[key].ptr = ptr]
                s2 == IF tlistLength(s1.db[key]) = 0 THEN dbDelete(s1, key) ELSE s1
            IN addReply(incrDirty(s2), c, shared_ok)

ltrimCommand(s, c, key, startArg, endArg) ==
    LET o == lookupKey(s, key)
    IN IF o = NULL THEN addReply(s, c, shared_ok)
       ELSE IF o.type # "list" THEN addReply(s, c, shared_wrongtypeerr)
       ELSE LET llen == tlistLength(o)
                start0 == IF atoi(startArg) < 0 THEN llen + atoi(startArg)
                          ELSE atoi(startArg)
                end0 == IF atoi(endArg) < 0 THEN llen + atoi(endArg) ELSE atoi(endArg)
                start == IF start0 < 0 THEN 0 ELSE start0
                empty == start > end0 \/ start >= llen
                end == IF end0 >= llen THEN llen - 1 ELSE end0
                ltrim == IF empty THEN llen ELSE start
                rtrim == IF empty THEN 0 ELSE llen - end - 1
                ptr == IF o.encoding = "ziplist"
                       THEN ziplistDeleteRange(ziplistDeleteRange(o.ptr, 0, ltrim),
                                               -rtrim, rtrim)
                       ELSE ltrimDelNodes(ltrimDelNodes(o.ptr, ltrim, TRUE), rtrim, FALSE)
                s1 == [s EXCEPT !.db[key].ptr = ptr]
                s2 == IF tlistLength(s1.db[key]) = 0 THEN dbDelete(s1, key) ELSE s1
            IN addReply(incrDirty(s2), c, shared_ok)

RECURSIVE lremZiplistLoop(_, _, _, _, _, _)
\* Lines 563-582: the scan of the packed list from the cursor eptr.  After a
\* delete the cursor addresses the entry that followed the deleted one.
lremZiplistLoop(zl, eptr, ele, toremove, removed, reverse) ==
    IF eptr = 0 \/ ~(toremove = 0 \/ removed < toremove)
    THEN [ptr |-> zl, removed |-> removed]
    ELSE IF ziplistCompare(zl, eptr, ele)
    THEN LET zl1 == ziplistDelete(zl, eptr)
         IN lremZiplistLoop(zl1, IF reverse THEN ziplistPrev(zl1, eptr) ELSE eptr,
                            ele, toremove, removed + 1, reverse)
    ELSE lremZiplistLoop(zl, IF reverse THEN ziplistPrev(zl, eptr)
                             ELSE ziplistNext(zl, eptr),
                         ele, toremove, removed, reverse)

RECURSIVE lremListLoop(_, _, _, _, _, _)
\* Lines 593-606: the scan of the linked list from the node ln.  Deleting a
\* node moves the nodes behind it one position up.
lremListLoop(l, ln, ele, toremove, removed, reverse) ==
    IF ln = 0 \/ ~(toremove = 0 \/ removed < toremove)
    THEN [ptr |-> l, removed |-> removed]
    ELSE LET aux == IF reverse THEN listPrevNode(l, ln) ELSE listNextNode(l, ln)
         IN IF equalStringObjects(l[ln], ele)
            THEN lremListLoop(listDelNode(l, ln),
                              IF reverse \/ aux = 0 THEN aux ELSE aux - 1,
                              ele, toremove, removed + 1, reverse)
            ELSE lremListLoop(l, aux, ele, toremove, removed, reverse)

\* lremCommand scanning from the head whatever the sign of count.
lremCommand_headOnly(s, c, key, countArg, val) ==
    LET lobj == lookupKey(s, key)
        reverse == FALSE
        toremove == IF atoi(countArg) < 0 THEN -atoi(countArg) ELSE atoi(countArg)
    IN IF lobj = NULL THEN addReply(s, c, shared_czero)
       ELSE IF lobj.type # "list" THEN addReply(s, c, shared_wrongtypeerr)
       ELSE LET r == IF lobj.encoding = "ziplist"
                     THEN lremZiplistLoop(lobj.ptr,
                                          ziplistIndex(lobj.ptr, IF reverse THEN -1 ELSE 0),
                                          val, toremove, 0, reverse)
                     ELSE lremListLoop(lobj.ptr,
                                       IF reverse THEN listLast(lobj.ptr)
                                       ELSE listFirst(lobj.ptr),
                                       tryObjectEncoding(createStringObject(val)),
                                       toremove, 0, reverse)
                s1 == [s EXCEPT !.db[key].ptr = r.ptr, !.dirty = @ + r.removed]
                s2 == IF tlistLength(s1.db[key]) = 0 THEN dbDelete(s1, key) ELSE s1
            IN addReplyLongLong(s2, c, r.removed)

lremCommand(s, c, key, countArg, val) ==
    LET lobj == lookupKey(s, key)
        reverse == atoi(countArg) < 0
        toremove == IF reverse THEN -atoi(countArg) ELSE atoi(countArg)
    IN IF lobj = NULL THEN addReply(s, c, shared_czero)
       ELSE IF lobj.type # "list" THEN addReply(s, c, shared_wrongtypeerr)
       ELSE LET r == IF lobj.encoding = "ziplist"
                     THEN lremZiplistLoop(lobj.ptr,
                                          ziplistIndex(lobj.ptr, IF reverse THEN -1 ELSE 0),
                                          val, toremove, 0, reverse)
                     ELSE lremListLoop(lobj.ptr,
                                       IF reverse THEN listLast(lobj.ptr)
                                       ELSE listFirst(lobj.ptr),
                                       tryObjectEncoding(createStringObject(val)),
                                       toremove, 0, reverse)
                s1 == [s EXCEPT !.db[key].ptr = r.ptr, !.dirty = @ + r.removed]
                s2 == IF tlistLength(s1.db[key]) = 0 THEN dbDelete(s1, key) ELSE s1
            IN addReplyLongLong(s2, c, r.removed)

(***************************************************************************)
(* Set commands (t_set.c).                                                 *)
(***************************************************************************)
saddCommand(s, c, key, val) ==
    LET set0 == lookupKey(s, key)
        value == tryObjectEncoding(createStringObject(val))
        s1 == IF set0 = NULL THEN dbAdd(s, key, setTypeCreate(value)) ELSE s
    IN IF set0 # NULL /\ set0.type # "set" THEN addReply(s, c, shared_wrongtypeerr)
       ELSE LET r == tsetAddObject(s1.db[key], value)
            IN IF r.ret = 1
               THEN addReply(incrDirty([s1 EXCEPT !.db[key] = r.obj]), c, shared_cone)
               ELSE addReply(s1, c, shared_czero)

sremCommand(s, c, key, val) ==
    LET set == lookupKey(s, key)
    IN IF set = NULL THEN addReply(s, c, shared_czero)
       ELSE IF set.type # "set" THEN addReply(s, c, shared_wrongtypeerr)
       ELSE LET r == tsetRemoveObject(set, tryObjectEncoding(createStringObject(val)))
            IN IF r.ret = 1
               THEN LET s1 == [s EXCEPT !.db[key] = r.obj]
                        s2 == IF tsetSize(r.obj) = 0 THEN dbDelete(s1, key) ELSE s1
                    IN addReply(incrDirty(s2), c, shared_cone)
               ELSE addReply(s, c, shared_czero)

(***************************************************************************)
(* What the code leaves to its environment is an oracle of the command:    *)
(* ord, the order in which a hash table is traversed (byte strings, first  *)
(* to last); rnd, the value of rand(); perm, the order qsort leaves the    *)
(* sets in (a permutation of their positions).                             *)
(***************************************************************************)
NoOracle == [ord |-> <<>>, rnd |-> 0, perm |-> <<>>]

RECURSIVE SetToSeq(_)
SetToSeq(S) ==
    IF S = {} THEN <<>>
    ELSE LET x == CHOOSE y \in S : TRUE IN <<x>> \o SetToSeq(S \ {x})

RECURSIVE intsetSeq(_)
\* intset.c: the integers of an intset in ascending order.
intsetSeq(is) ==
    IF is = {} THEN <<>>
    ELSE LET m == CHOOSE x \in is : \A y \in is : x <= y
         IN <<m>> \o intsetSeq(is \ {m})

\* dict.c: the keys of a hash table in the order of a traversal.
dictIterate(d, ord) ==
    LET known == SelectSeq(ord, LAMBDA b : \E e \in d : Bytes(e) = b)
        first == [i \in 1..Len(known) |-> CHOOSE e \in d : Bytes(e) = known[i]]
    IN first \o SetToSeq({e \in d : \A i \in 1..Len(ord) : ord[i] # Bytes(e)})

\* tsetInitIterator / tsetNext: the literals a traversal of the set yields.
tsetElements(sobj, ord) ==
    IF sobj.encoding = "intset"
    THEN MapSeq(litFromLongLong, intsetSeq(sobj.ptr))
    ELSE MapSeq(litFromObject, dictIterate(sobj.ptr, ord))

tsetRandomElement(sobj, orc) ==
    tsetElements(sobj, orc.ord)[(orc.rnd % tsetSize(sobj)) + 1]

addReplyBulkLiteral(s, c, lit) == addReplyBulk(s, c, litGetObject(lit))

\* smoveCommand that looks at the type of the destination only after it
\* has taken the element out of the source.
smoveCommand_lateTypeCheck(s, c, src, dst, val) ==
    LET srcset == lookupKey(s, src)
        dstset == lookupKey(s, dst)
        ele == tryObjectEncoding(createStringObject(val))
    IN IF srcset = NULL THEN addReply(s, c, shared_czero)
       ELSE IF srcset.type # "set" THEN addReply(s, c, shared_wrongtypeerr)
       ELSE IF src = dst THEN addReply(s, c, shared_cone)
       ELSE LET r == tsetRemoveObject(srcset, ele)
            IN IF r.ret = 0 THEN addReply(s, c, shared_czero)
               ELSE LET s1 == [s EXCEPT !.db[src] = r.obj]
                        s2 == incrDirty(IF tsetSize(r.obj) = 0 THEN dbDelete(s1, src)
                                        ELSE s1)
                    IN IF dstset # NULL /\ dstset.type # "set"
                       THEN addReply(s2, c, shared_wrongtypeerr)
                       ELSE LET s3 == IF dstset = NULL
                                      THEN dbAdd(s2, dst, setTypeCreate(ele)) ELSE s2
                                a == tsetAddObject(s3.db[dst], ele)
                                s4 == [s3 EXCEPT !.db[dst] = a.obj]
                            IN addReply(IF a.ret = 1 THEN incrDirty(s4) ELSE s4,
                                        c, shared_cone)

smoveCommand(s, c, src, dst, val) ==
    LET srcset == lookupKey(s, src)
        dstset == lookupKey(s, dst)
        ele == tryObjectEncoding(createStringObject(val))
    IN IF srcset = NULL THEN addReply(s, c, shared_czero)
       ELSE IF srcset.type # "set" THEN addReply(s, c, shared_wrongtypeerr)
       ELSE IF dstset # NULL /\ dstset.type # "set"
       THEN addReply(s, c, shared_wrongtypeerr)
       ELSE IF src = dst THEN addReply(s, c, shared_cone)
       ELSE LET r == tsetRemoveObject(srcset, ele)
            IN IF r.ret = 0 THEN addReply(s, c, shared_czero)
               ELSE LET s1 == [s EXCEPT !.db[src] = r.obj]
                        s2 == incrDirty(IF tsetSize(r.obj) = 0 THEN dbDelete(s1, src)
                                        ELSE s1)
                        s3 == IF dstset = NULL THEN dbAdd(s2, dst, setTypeCreate(ele))
                              ELSE s2
                        a == tsetAddObject(s3.db[dst], ele)
                        s4 == [s3 EXCEPT !.db[dst] = a.obj]
                    IN addReply(IF a.ret = 1 THEN incrDirty(s4) ELSE s4, c, shared_cone)

sismemberCommand(s, c, key, val) ==
    LET set == lookupKey(s, key)
    IN IF set = NULL THEN addReply(s, c, shared_czero)
       ELSE IF set.type # "set" THEN addReply(s, c, shared_wrongtypeerr)
       ELSE IF tsetFindObject(set, createStringObject(val))
       THEN addReply(s, c, shared_cone)
       ELSE addReply(s, c, shared_czero)

scardCommand(s, c, key) ==
    LET o == lookupKey(s, key)
    IN IF o = NULL THEN addReply(s, c, shared_czero)
       ELSE IF o.type # "set" THEN addReply(s, c, shared_wrongtypeerr)
       ELSE addReplyLongLong(s, c, tsetSize(o))

\* spopCommand that leaves the command vector as the client sent it.
spopCommand_keepArgv(s, c, key, orc) ==
    LET sobj == lookupKey(s, key)
    IN IF sobj = NULL THEN addReply(s, c, shared_nullbulk)
       ELSE IF sobj.type # "set" THEN addReply(s, c, shared_wrongtypeerr)
       ELSE LET elelit == tsetRandomElement(sobj, orc)
                eleobj == litGetObject(elelit)
                r == tsetRemoveLiteral(sobj, elelit)
            IN IF r.ret = 0
               THEN Panic(s, "spopCommand: tsetRemoveLiteral(sobj,&elelit)")
               ELSE LET s1 == [s EXCEPT !.db[key] = r.obj]
                        s2 == addReplyBulk(s1, c, eleobj)
                        s3 == IF tsetSize(r.obj) = 0 THEN dbDelete(s2, key) ELSE s2
                    IN incrDirty(s3)

spopCommand(s, c, key, orc) ==
    LET sobj == lookupKey(s, key)
    IN IF sobj = NULL THEN addReply(s, c, shared_nullbulk)
       ELSE IF sobj.type # "set" THEN addReply(s, c, shared_wrongtypeerr)
       ELSE LET elelit == tsetRandomElement(sobj, orc)
                eleobj == litGetObject(elelit)
                r == tsetRemoveLiteral(sobj, elelit)
            IN IF r.ret = 0
               THEN Panic(s, "spopCommand: tsetRemoveLiteral(sobj,&elelit)")
               ELSE LET s1 == [s EXCEPT !.db[key] = r.obj,
                                         !.argv[c] = <<"SREM", key, Bytes(eleobj)>>]
                        s2 == addReplyBulk(s1, c, eleobj)
                        s3 == IF tsetSize(r.obj) = 0 THEN dbDelete(s2, key) ELSE s2
                    IN incrDirty(s3)

srandmemberCommand(s, c, key, orc) ==
    LET sobj == lookupKey(s, key)
    IN IF sobj = NULL THEN addReply(s, c, shared_nullbulk)
       ELSE IF sobj.type # "set" THEN addReply(s, c, shared_wrongtypeerr)
       ELSE addReplyBulkLiteral(s, c, tsetRandomElement(sobj, orc))

qsortCompareSetsByCardinality(s1, s2) == tsetSize(s1) - tsetSize(s2)

RECURSIVE qsortInsert(_, _)
\* A sorted sequence with one more set, behind the sets that are not larger.
qsortInsert(sorted, x) ==
    IF sorted = <<>> THEN <<x>>
    ELSE IF qsortCompareSetsByCardinality(Head(sorted), x) <= 0
    THEN <<Head(sorted)>> \o qsortInsert(Tail(sorted), x)
    ELSE <<x>> \o sorted

RECURSIVE qsortStable(_, _)
qsortStable(sets, j) ==
    IF j = 0 THEN <<>> ELSE qsortInsert(qsortStable(sets, j - 1), sets[j])

\* qsort with qsortCompareSetsByCardinality: the sets in ascending order of
\* cardinality; sets of equal cardinality come out in the order perm gives,
\* in their original order when perm is no ascending arrangement.
qsort(sets, perm) ==
    IF /\ Len(perm) = Len(sets)
       /\ {perm[i] : i \in 1..Len(perm)} = 1..Len(sets)
       /\ \A i \in 1..Len(sets) : \A j \in (i + 1)..Len(sets) :
              qsortCompareSetsByCardinality(sets[perm[i]], sets[perm[j]]) <= 0
    THEN [i \in 1..Len(sets) |-> sets[perm[i]]]
    ELSE qsortStable(sets, Len(sets))

RECURSIVE sinterLookup(_, _, _, _, _, _)
\* Lines 395-417: the lookup of the sets from setkeys[j]; done when the
\* command has replied.
sinterLookup(s, c, setkeys, dstkey, j, sets) ==
    IF j > Len(setkeys) THEN [done |-> FALSE, s |-> s, sets |-> sets]
    ELSE LET setobj == lookupKey(s, setkeys[j])
         IN IF setobj = NULL
            THEN [done |-> TRUE, sets |-> <<>>,
                  s |-> IF dstkey # NOKEY
                        THEN addReply(IF s.db[dstkey] # NULL
                                      THEN incrDirty(dbDelete(s, dstkey)) ELSE s,
                                      c, shared_czero)
                        ELSE addReply(s, c, shared_emptymultibulk)]
            ELSE IF setobj.type # "set"
            THEN [done |-> TRUE, sets |-> <<>>, s |-> addReply(s, c, shared_wrongtypeerr)]
            ELSE sinterLookup(s, c, setkeys, dstkey, j + 1, Append(sets, setobj))

RECURSIVE tsetAddLiterals(_, _, _)
\* tsetAddLiteral for the literals eles[i ..] in turn.
tsetAddLiterals(dstset, eles, i) ==
    IF i > Len(eles) THEN dstset
    ELSE tsetAddLiterals(tsetAddLiteral(dstset, eles[i]).obj, eles, i + 1)

RECURSIVE addReplyBulkLiterals(_, _, _, _)
addReplyBulkLiterals(s, c, eles, i) ==
    IF i > Len(eles) THEN s
    ELSE addReplyBulkLiterals(addReplyBulkLiteral(s, c, eles[i]), c, eles, i + 1)

\* storeResult that leaves the old destination in place on an empty result.
storeResult_keepOnEmpty(s, c, dstkey, dstset) ==
    LET s2 == IF tsetSize(dstset) > 0
              THEN addReplyLongLong(dbAdd(dbDelete(s, dstkey), dstkey, dstset),
                                    c, tsetSize(dstset))
              ELSE addReply(s, c, shared_czero)
    IN incrDirty(s2)

\* Lines 460-472 and 556-565: the result replaces the destination.
storeResult(s, c, dstkey, dstset) ==
    LET s1 == dbDelete(s, dstkey)
        s2 == IF tsetSize(dstset) > 0
              THEN addReplyLongLong(dbAdd(s1, dstkey, dstset), c, tsetSize(dstset))
              ELSE addReply(s1, c, shared_czero)
    IN incrDirty(s2)

\* sinterGenericCommand whose membership loop starts one source too late.
sinterGenericCommand_skipSecond(s, c, setkeys, dstkey, orc) ==
    LET l == sinterLookup(s, c, setkeys, dstkey, 1, <<>>)
    IN IF l.done THEN l.s
       ELSE LET sets == qsort(l.sets, orc.perm)
                found == SelectSeq(tsetElements(sets[1], orc.ord),
                                   LAMBDA ele : \A j \in 3..Len(sets) :
                                                    tsetFindLiteral(sets[j], ele))
            IN IF dstkey = NOKEY
               THEN addReplyBulkLiterals(
                        addReplyMultiBulkLen(s, c, Len(found)), c, found, 1)
               ELSE storeResult(s, c, dstkey,
                                tsetAddLiterals(createIntsetObject, found, 1))

\* dstkey is NOKEY for SINTER.
sinterGenericCommand(s, c, setkeys, dstkey, orc) ==
    LET l == sinterLookup(s, c, setkeys, dstkey, 1, <<>>)
    IN IF l.done THEN l.s
       ELSE LET sets == qsort(l.sets, orc.perm)
                \* the elements of the smallest set that every other set holds
                found == SelectSeq(tsetElements(sets[1], orc.ord),
                                   LAMBDA ele : \A j \in 2..Len(sets) :
                                                    tsetFindLiteral(sets[j], ele))
            IN IF dstkey = NOKEY
               THEN addReplyBulkLiterals(
                        addReplyMultiBulkLen(s, c, Len(found)), c, found, 1)
               ELSE storeResult(s, c, dstkey,
                                tsetAddLiterals(createIntsetObject, found, 1))

REDIS_OP_UNION == "union"
REDIS_OP_DIFF == "diff"

RECURSIVE sunionDiffLookup(_, _, _, _, _)
\* Lines 498-511: the lookup of the sets; a missing key gives NULL.
sunionDiffLookup(s, c, setkeys, j, sets) ==
    IF j > Len(setkeys) THEN [done |-> FALSE, s |-> s, sets |-> sets]
    ELSE LET setobj == lookupKey(s, setkeys[j])
         IN IF setobj # NULL /\ setobj.type # "set"
            THEN [done |-> TRUE, sets |-> <<>>, s |-> addReply(s, c, shared_wrongtypeerr)]
            ELSE sunionDiffLookup(s, c, setkeys, j + 1, Append(sets, setobj))

RECURSIVE sunionDiffElements(_, _, _, _, _)
\* Lines 525-538: the elements eles[i ..] of source j are added to the result
\* or removed from it.
sunionDiffElements(r, eles, i, op, j) ==
    IF i > Len(eles) THEN r
    ELSE IF op = REDIS_OP_UNION \/ j = 1
    THEN LET a == tsetAddLiteral(r.dstset, eles[i])
         IN sunionDiffElements([dstset |-> a.obj, cardinality |-> r.cardinality + a.ret],
                               eles, i + 1, op, j)
    ELSE LET d == tsetRemoveLiteral(r.dstset, eles[i])
         IN sunionDiffElements([dstset |-> d.obj, cardinality |-> r.cardinality - d.ret],
                               eles, i + 1, op, j)

RECURSIVE sunionDiffLoop_breakOnMissing(_, _, _, _, _)
\* sunionDiffLoop that stops at a missing source instead of skipping it.
sunionDiffLoop_breakOnMissing(r, sets, j, op, ord) ==
    IF j > Len(sets) THEN r
    ELSE IF sets[j] = NULL THEN r
    ELSE LET r1 == sunionDiffElements(r, tsetElements(sets[j], ord), 1, op, j)
         IN IF op = REDIS_OP_DIFF /\ r1.cardinality = 0 THEN r1
            ELSE sunionDiffLoop_breakOnMissing(r1, sets, j + 1, op, ord)

RECURSIVE sunionDiffLoop(_, _, _, _, _)
\* Lines 520-543: the loop over the sources from sets[j].
sunionDiffLoop(r, sets, j, op, ord) ==
    IF j > Len(sets) THEN r
    ELSE IF op = REDIS_OP_DIFF /\ j = 1 /\ sets[j] = NULL THEN r
    ELSE IF sets[j] = NULL THEN sunionDiffLoop(r, sets, j + 1, op, ord)
    ELSE LET r1 == sunionDiffElements(r, tsetElements(sets[j], ord), 1, op, j)
         IN IF op = REDIS_OP_DIFF /\ r1.cardinality = 0 THEN r1
            ELSE sunionDiffLoop(r1, sets, j + 1, op, ord)

\* sunionDiffGenericCommand that empties the destination before it reads
\* the sources.
sunionDiffGenericCommand_clearFirst(s, c, setkeys, dstkey, op, orc) ==
    LET s0 == IF dstkey # NOKEY /\ s.db[dstkey] # NULL /\ s.db[dstkey].type = "set"
              THEN dbDelete(s, dstkey) ELSE s
        l == sunionDiffLookup(s0, c, setkeys, 1, <<>>)
    IN IF l.done THEN l.s
       ELSE LET r == sunionDiffLoop([dstset |-> createIntsetObject, cardinality |-> 0],
                                    l.sets, 1, op, orc.ord)
            IN IF dstkey = NOKEY
               THEN addReplyBulkLiterals(
                        addReplyMultiBulkLen(s0, c, r.cardinality), c,
                        tsetElements(r.dstset, orc.ord), 1)
               ELSE storeResult(s0, c, dstkey, r.dstset)

\* dstkey is NOKEY for SUNION and SDIFF.
sunionDiffGenericCommand(s, c, setkeys, dstkey, op, orc) ==
    LET l == sunionDiffLookup(s, c, setkeys, 1, <<>>)
    IN IF l.done THEN l.s
       ELSE LET r == sunionDiffLoop([dstset |-> createIntsetObject, cardinality |-> 0],
                                    l.sets, 1, op, orc.ord)
            IN IF dstkey = NOKEY
               THEN addReplyBulkLiterals(
                        addReplyMultiBulkLen(s, c, r.cardinality), c,
                        tsetElements(r.dstset, orc.ord), 1)
               ELSE storeResult(s, c, dstkey, r.dstset)

(***************************************************************************)
(* The event loop (redis.c, networking.c, multi.c: external).              *)
(***************************************************************************)
\* The server state as a record.
St == [db |-> db, blocking_keys |-> blocking_keys, bpop |-> bpop,
       flags |-> flags, unblocked_clients |-> unblocked_clients,
       bpop_blocked_clients |-> bpop_blocked_clients, reply |-> reply,
       dirty |-> dirty, argv |-> argv, panic |-> panic]

NoReply == [c \in CLIENTS |-> <<>>]

\* The loop resumes the clients on the unblocked list before it sleeps.
beforeSleep(s) ==
    [s EXCEPT !.unblocked_clients = <<>>,
              !.flags = [c \in CLIENTS |-> s.flags[c] \ {"REDIS_UNBLOCKED"}]]

\* The state when the loop runs something that is no command: the previous
\* iteration has written the reply buffers out, reset the argument vectors
\* and resumed the unblocked clients; server.dirty is counted from here.
BeginIdle ==
    [beforeSleep(St) EXCEPT !.reply = NoReply, !.dirty = 0,
                            !.argv = [d \in CLIENTS |-> <<>>]]

\* The state when the loop hands a command of client c to its handler:
\* c->argv holds the command.
Begin(c, av) == [BeginIdle EXCEPT !.argv[c] = av]

\* The loop reads commands of a client that is not blocked, while the
\* process is running.
Ready(c) == panic = "" /\ "REDIS_BLOCKED" \notin flags[c]

\* The loop has written the reply buffers out and reset the clients: what
\* BeginIdle makes of the state at the start of the next iteration.
Flush(s) ==
    [beforeSleep(s) EXCEPT !.reply = NoReply, !.dirty = 0,
                           !.argv = [d \in CLIENTS |-> <<>>]]

\* How a specification observes a step: m.n bounds the list lengths, and
\* with m.flush the state is taken after the replies have been written out.
Obs(n, flush) == [n |-> n, flush |-> flush]

StateOK(s, n) ==
    \A k \in KEYS : s.db[k].type = "list" => Len(s.db[k].ptr) <= n

Run(s, m) ==
    LET r == IF m.flush THEN Flush(s) ELSE s
    IN /\ StateOK(r, m.n)
       /\ db' = r.db
       /\ blocking_keys' = r.blocking_keys
       /\ bpop' = r.bpop
       /\ flags' = r.flags
       /\ unblocked_clients' = r.unblocked_clients
       /\ bpop_blocked_clients' = r.bpop_blocked_clients
       /\ reply' = r.reply
       /\ dirty' = r.dirty
       /\ argv' = r.argv
       /\ panic' = r.panic

\* The timer finds the deadline of a blocked client passed.
blockedClientTimeout(s, c) ==
    unblockClientWaitingData(addReply(s, c, shared_nullmultibulk), c)

\* A connection closes (freeClient): a blocked client is unblocked first and
\* the descriptor is released; the identity may connect again.
freeClient(s, c) ==
    LET s1 == IF "REDIS_BLOCKED" \in s.flags[c]
              THEN unblockClientWaitingData(s, c) ELSE s
    IN [s1 EXCEPT !.flags[c] = {},
                  !.bpop[c] = [keys |-> <<>>, timeout |-> 0, target |-> NOKEY],
                  !.unblocked_clients = SelectSeq(@, LAMBDA d : d # c)]

multiCommand(s, c) ==
    addReply([s EXCEPT !.flags[c] = @ \cup {"REDIS_MULTI"}], c, shared_ok)

\* EXEC has run the queued commands of c.
execCommand(s, c) == [s EXCEPT !.flags[c] = @ \ {"REDIS_MULTI"}]

\* call: the handler the command table names for c->argv[0] runs on the
\* arguments (lpushCommand, rpushCommand, ... are these one-line wrappers).
call(s, c, av, orc) ==
    CASE av[1] = "LPUSH" -> pushGenericCommand(s, c, av[2], av[3], REDIS_HEAD)
      [] av[1] = "RPUSH" -> pushGenericCommand(s, c, av[2], av[3], REDIS_TAIL)
      [] av[1] = "LPUSHX" -> lpushxCommand(s, c, av[2], av[3])
      [] av[1] = "RPUSHX" -> rpushxCommand(s, c, av[2], av[3])
      [] av[1] = "LINSERT" -> linsertCommand(s, c, av[2], av[3], av[4], av[5])
      [] av[1] = "LLEN" -> llenCommand(s, c, av[2])
      [] av[1] = "LINDEX" -> lindexCommand(s, c, av[2], av[3])
      [] av[1] = "LSET" -> lsetCommand(s, c, av[2], av[3], av[4])
      [] av[1] = "LPOP" -> popGenericCommand(s, c, av[2], REDIS_HEAD)
      [] av[1] = "RPOP" -> popGenericCommand(s, c, av[2], REDIS_TAIL)
      [] av[1] = "LRANGE" -> lrangeCommand(s, c, av[2], av[3], av[4])
      [] av[1] = "LTRIM" -> ltrimCommand(s, c, av[2], av[3], av[4])
      [] av[1] = "LREM" -> lremCommand(s, c, av[2], av[3], av[4])
      [] av[1] = "RPOPLPUSH" -> rpoplpushCommand(s, c, av[2], av[3])
      [] av[1] = "BLPOP" ->
             blockingPopGenericCommand(s, c, SubSeq(av, 2, Len(av) - 1), av[Len(av)],
                                       REDIS_HEAD)
      [] av[1] = "BRPOP" ->
             blockingPopGenericCommand(s, c, SubSeq(av, 2, Len(av) - 1), av[Len(av)],
                                       REDIS_TAIL)
      [] av[1] = "BRPOPLPUSH" -> brpoplpushCommand(s, c, av[2], av[3], av[4])
      [] av[1] = "SADD" -> saddCommand(s, c, av[2], av[3])
      [] av[1] = "SREM" -> sremCommand(s, c, av[2], av[3])
      [] av[1] = "SMOVE" -> smoveCommand(s, c, av[2], av[3], av[4])
      [] av[1] = "SISMEMBER" -> sismemberCommand(s, c, av[2], av[3])
      [] av[1] = "SCARD" -> scardCommand(s, c, av[2])
      [] av[1] = "SPOP" -> spopCommand(s, c, av[2], orc)
      [] av[1] = "SRANDMEMBER" -> srandmemberCommand(s, c, av[2], orc)
      [] av[1] = "SINTER" ->
             sinterGenericCommand(s, c, SubSeq(av, 2, Len(av)), NOKEY, orc)
      [] av[1] = "SINTERSTORE" ->
             sinterGenericCommand(s, c, SubSeq(av, 3, Len(av)), av[2], orc)
      [] av[1] = "SUNION" ->
             sunionDiffGenericCommand(s, c, SubSeq(av, 2, Len(av)), NOKEY,
                                      REDIS_OP_UNION, orc)
      [] av[1] = "SUNIONSTORE" ->
             sunionDiffGenericCommand(s, c, SubSeq(av, 3, Len(av)), av[2],
                                      REDIS_OP_UNION, orc)
      [] av[1] = "SDIFF" ->
             sunionDiffGenericCommand(s, c, SubSeq(av, 2, Len(av)), NOKEY,
                                      REDIS_OP_DIFF, orc)
      [] av[1] = "SDIFFSTORE" ->
             sunionDiffGenericCommand(s, c, SubSeq(av, 3, Len(av)), av[2],
                                      REDIS_OP_DIFF, orc)
      [] av[1] = "MULTI" -> multiCommand(s, c)
      [] av[1] = "EXEC" -> execCommand(s, c)

(***************************************************************************)
(* Actions: one per command or loop event.  n bounds the list lengths.     *)
(***************************************************************************)
Init ==
    /\ db = [k \in KEYS |-> NULL]
    /\ blocking_keys = NoDict
    /\ bpop = [c \in CLIENTS |-> [keys |-> <<>>, timeout |-> 0, target |-> NOKEY]]
    /\ flags = [c \in CLIENTS |-> {}]
    /\ unblocked_clients = <<>>
    /\ bpop_blocked_clients = 0
    /\ reply = NoReply
    /\ dirty = 0
    /\ argv = [c \in CLIENTS |-> <<>>]
    /\ panic = ""

LPush(c, k, v, m) ==
    Ready(c) /\ Run(pushGenericCommand(Begin(c, <<"LPUSH", k, v>>), c, k, v, REDIS_HEAD), m)

RPush(c, k, v, m) ==
    Ready(c) /\ Run(pushGenericCommand(Begin(c, <<"RPUSH", k, v>>), c, k, v, REDIS_TAIL), m)

LPushX(c, k, v, m) ==
    Ready(c) /\ Run(lpushxCommand(Begin(c, <<"LPUSHX", k, v>>), c, k, v), m)

RPushX(c, k, v, m) ==
    Ready(c) /\ Run(rpushxCommand(Begin(c, <<"RPUSHX", k, v>>), c, k, v), m)

LInsert(c, k, w, pivot, v, m) ==
    Ready(c) /\ Run(linsertCommand(Begin(c, <<"LINSERT", k, w, pivot, v>>),
                                   c, k, w, pivot, v), m)

LLen(c, k, m) ==
    Ready(c) /\ Run(llenCommand(Begin(c, <<"LLEN", k>>), c, k), m)

LIndex(c, k, i, m) ==
    Ready(c) /\ Run(lindexCommand(Begin(c, <<"LINDEX", k, i>>), c, k, i), m)

LSet(c, k, i, v, m) ==
    Ready(c) /\ Run(lsetCommand(Begin(c, <<"LSET", k, i, v>>), c, k, i, v), m)

LPop(c, k, m) ==
    Ready(c) /\ Run(popGenericCommand(Begin(c, <<"LPOP", k>>), c, k, REDIS_HEAD), m)

RPop(c, k, m) ==
    Ready(c) /\ Run(popGenericCommand(Begin(c, <<"RPOP", k>>), c, k, REDIS_TAIL), m)

LRange(c, k, i, j, m) ==
    Ready(c) /\ Run(lrangeCommand(Begin(c, <<"LRANGE", k, i, j>>), c, k, i, j), m)

LTrim(c, k, i, j, m) ==
    Ready(c) /\ Run(ltrimCommand(Begin(c, <<"LTRIM", k, i, j>>), c, k, i, j), m)

LRem(c, k, i, v, m) ==
    Ready(c) /\ Run(lremCommand(Begin(c, <<"LREM", k, i, v>>), c, k, i, v), m)

RPopLPush(c, src, dst, m) ==
    Ready(c) /\ Run(rpoplpushCommand(Begin(c, <<"RPOPLPUSH", src, dst>>), c, src, dst), m)

BLPop(c, keys, t, m) ==
    Ready(c) /\ Run(blockingPopGenericCommand(
                        Begin(c, <<"BLPOP">> \o keys \o <<t>>), c, keys, t, REDIS_HEAD), m)

BRPop(c, keys, t, m) ==
    Ready(c) /\ Run(blockingPopGenericCommand(
                        Begin(c, <<"BRPOP">> \o keys \o <<t>>), c, keys, t, REDIS_TAIL), m)

BRPopLPush(c, src, dst, t, m) ==
    Ready(c) /\ Run(brpoplpushCommand(
                        Begin(c, <<"BRPOPLPUSH", src, dst, t>>), c, src, dst, t), m)

SAdd(c, k, v, m) ==
    Ready(c) /\ Run(saddCommand(Begin(c, <<"SADD", k, v>>), c, k, v), m)

SRem(c, k, v, m) ==
    Ready(c) /\ Run(sremCommand(Begin(c, <<"SREM", k, v>>), c, k, v), m)

SMove(c, src, dst, v, m) ==
    Ready(c) /\ Run(smoveCommand(Begin(c, <<"SMOVE", src, dst, v>>), c, src, dst, v), m)

SIsMember(c, k, v, m) ==
    Ready(c) /\ Run(sismemberCommand(Begin(c, <<"SISMEMBER", k, v>>), c, k, v), m)

SCard(c, k, m) ==
    Ready(c) /\ Run(scardCommand(Begin(c, <<"SCARD", k>>), c, k), m)

SPop(c, k, orc, m) ==
    Ready(c) /\ Run(spopCommand(Begin(c, <<"SPOP", k>>), c, k, orc), m)

SRandMember(c, k, orc, m) ==
    Ready(c) /\ Run(srandmemberCommand(Begin(c, <<"SRANDMEMBER", k>>), c, k, orc), m)

SInter(c, keys, orc, m) ==
    Ready(c) /\ Run(sinterGenericCommand(Begin(c, <<"SINTER">> \o keys),
                                         c, keys, NOKEY, orc), m)

SInterStore(c, dst, keys, orc, m) ==
    Ready(c) /\ Run(sinterGenericCommand(Begin(c, <<"SINTERSTORE", dst>> \o keys),
                                         c, keys, dst, orc), m)

SUnion(c, keys, orc, m) ==
    Ready(c) /\ Run(sunionDiffGenericCommand(Begin(c, <<"SUNION">> \o keys),
                                             c, keys, NOKEY, REDIS_OP_UNION, orc), m)

SUnionStore(c, dst, keys, orc, m) ==
    Ready(c) /\ Run(sunionDiffGenericCommand(Begin(c, <<"SUNIONSTORE", dst>> \o keys),
                                             c, keys, dst, REDIS_OP_UNION, orc), m)

SDiff(c, keys, orc, m) ==
    Ready(c) /\ Run(sunionDiffGenericCommand(Begin(c, <<"SDIFF">> \o keys),
                                             c, keys, NOKEY, REDIS_OP_DIFF, orc), m)

SDiffStore(c, dst, keys, orc, m) ==
    Ready(c) /\ Run(sunionDiffGenericCommand(Begin(c, <<"SDIFFSTORE", dst>> \o keys),
                                             c, keys, dst, REDIS_OP_DIFF, orc), m)

Multi(c, m) ==
    /\ Ready(c) /\ "REDIS_MULTI" \notin flags[c]
    /\ Run(multiCommand(Begin(c, <<"MULTI">>), c), m)

Exec(c, m) ==
    /\ Ready(c) /\ "REDIS_MULTI" \in flags[c]
    /\ Run(execCommand(Begin(c, <<"EXEC">>), c), m)

Timeout(c, m) ==
    /\ panic = "" /\ "REDIS_BLOCKED" \in flags[c] /\ bpop[c].timeout # 0
    /\ Run(blockedClientTimeout(BeginIdle, c), m)

Disconnect(c, m) ==
    /\ panic = "" /\ "REDIS_BLOCKED" \in flags[c]
    /\ Run(freeClient(BeginIdle, c), m)

(***************************************************************************)
(* Spec: the blocking rendezvous with the commands that push and pop.      *)
(* Clients c1..c3 issue the blocking commands, c4 the others.  c1 waits on *)
(* one or two keys, with or without a deadline, or pops into a target; c2  *)
(* waits on k1 or pops into a target; c3 waits on k1.  Every wait of c1    *)
(* that names k2 names two keys.                                           *)
(***************************************************************************)
BMaxLen == 1
BValues == {"a", "1"}
Consumers == {"c1", "c2", "c3"}
Producers == {"c4"}
\* The (keys, timeout) arguments of the BLPOP of a client.
BPopArgs(c) ==
    IF c = "c1"
    THEN {<<<<"k1">>, "0">>, <<<<"k1">>, "1">>, <<<<"k2", "k1">>, "0">>,
          <<<<"k1", "k2">>, "0">>, <<<<"k2", "k2">>, "0">>}
    ELSE {<<<<"k1">>, "0">>}

\* Spec observes the state when the handler returns.
BObs == Obs(BMaxLen, FALSE)

Next ==
    \/ \E c \in Producers, k \in KEYS, v \in BValues : LPush(c, k, v, BObs)
    \/ \E c \in Producers, k \in KEYS, v \in BValues : RPush(c, k, v, BObs)
    \/ \E c \in Producers, k \in KEYS : LPop(c, k, BObs)
    \/ \E c \in Producers, k \in KEYS, h \in KEYS : RPopLPush(c, k, h, BObs)
    \/ \E c \in Consumers : \E a \in BPopArgs(c) : BLPop(c, a[1], a[2], BObs)
    \/ \E c \in {"c1", "c2"}, k \in KEYS, h \in KEYS :
           BRPopLPush(c, k, h, "0", BObs)
    \/ \E c \in Producers, k \in KEYS : SAdd(c, k, "1", BObs)
    \/ \E c \in Producers, k \in KEYS : SRem(c, k, "1", BObs)
    \/ \E c \in Consumers : Timeout(c, BObs)
    \/ \E c \in Consumers : Disconnect(c, BObs)

Spec == Init /\ [][Next]_vars

(***************************************************************************)
(* Properties of the blocking rendezvous, checked under Spec.  A property  *)
(* of a step relates the state before it (unprimed) and after it (primed). *)
(***************************************************************************)
\* The clients waiting on k, oldest first, before and after the step.
Waiters(k) == IF k \in DOMAIN blocking_keys THEN blocking_keys[k] ELSE <<>>
WaitersAfter(k) == IF k \in DOMAIN blocking_keys' THEN blocking_keys'[k] ELSE <<>>

Blocked(c) == "REDIS_BLOCKED" \in flags[c]
BlockedAfter(c) == "REDIS_BLOCKED" \in flags'[c]

\* The argument vectors of LPUSH and RPUSH k v.
PushCmds(k, v) == {<<"LPUSH", k, v>>, <<"RPUSH", k, v>>}
\* The step is the command LPUSH or RPUSH k v of client c.
PushStep(c, k, v) == argv'[c] \in PushCmds(k, v)
\* The last step was the command LPUSH or RPUSH k v of client c.
Pushed(c, k, v) == argv[c] \in PushCmds(k, v)

\* The reply of a plain blocking pop served with value v through key k.
Tuple(k, v) == <<ReplyMultiBulkLen(2), ReplyBulk(k), ReplyBulk(v)>>

\* A waiter that can take a value: it has no target, or its target is
\* missing or a list.
Eligible(w) ==
    bpop[w].target = NOKEY \/ db[bpop[w].target].type \in {"none", "list"}

\* The position in the queue of k of the oldest waiter that can take a
\* value, 0 when there is none.
FirstEligible(k) ==
    LET q == Waiters(k)
    IN IF \E i \in 1..Len(q) : Eligible(q[i])
       THEN CHOOSE i \in 1..Len(q) :
                Eligible(q[i]) /\ \A j \in 1..(i - 1) : ~Eligible(q[j])
       ELSE 0

\* A push onto k reaches the registry and a waiter takes the value.
Delivered(k) == db[k].type \in {"none", "list"} /\ FirstEligible(k) # 0
\* The waiter that takes it.
Receiver(k) == Waiters(k)[FirstEligible(k)]

Count(seq, x) == Cardinality({i \in 1..Len(seq) : seq[i] = x})

\* The byte strings of a list object, head first.
ListContents(o) == [i \in 1..Len(o.ptr) |-> Bytes(o.ptr[i])]

\* C1: Blocking FIFO.  In every step the queue of every key keeps the
\* waiters that stay blocked in their order and takes the clients that
\* block in this step at its tail; a push onto a key with waiters always
\* unblocks the oldest waiter, and when that waiter is a plain blocking pop
\* it receives (key, value) and every other waiter stays registered, in the
\* order in which they blocked.
FifoQueues ==
    \A k \in KEYS :
        LET q == Waiters(k)
            q1 == WaitersAfter(k)
            kept == SelectSeq(q, LAMBDA w : BlockedAfter(w))
        IN /\ Len(q1) >= Len(kept)
           /\ SubSeq(q1, 1, Len(kept)) = kept
           /\ \A i \in (Len(kept) + 1)..Len(q1) : ~Blocked(q1[i])

FifoPush ==
    \A c \in CLIENTS, k \in KEYS, v \in BValues :
        (PushStep(c, k, v) /\ db[k].type \in {"none", "list"} /\ Waiters(k) # <<>>) =>
            LET q == Waiters(k)
                w1 == Head(q)
            IN /\ ~BlockedAfter(w1)
               /\ (bpop[w1].target = NOKEY) =>
                      /\ reply'[w1] = Tuple(k, v)
                      /\ WaitersAfter(k) = SelectSeq(q, LAMBDA w : w # w1)
                      /\ \A w \in CLIENTS \ {w1} :
                             Blocked(w) => BlockedAfter(w) /\ bpop'[w] = bpop[w]

PlainDelivery ==
    \A c \in CLIENTS, k \in KEYS, v \in BValues :
        (PushStep(c, k, v) /\ Delivered(k) /\ bpop[Receiver(k)].target = NOKEY) =>
            LET w == Receiver(k)
                q == Waiters(k)
            IN /\ reply'[w] = Tuple(k, v)
               /\ db' = db
               /\ reply'[c] = <<ReplyInt(1)>>
               /\ \A x \in CLIENTS \ {c, w} :
                      \/ reply'[x] = <<>>
                      \/ /\ reply'[x] = <<shared_wrongtypeerr>>
                         /\ \E j \in 1..(FirstEligible(k) - 1) : q[j] = x

C2_PlainDelivery == [][PlainDelivery]_vars

\* The push RPUSH k1 a has been delivered to c1 while c2 keeps waiting.
C2_Witness ==
    /\ argv["c4"] = <<"RPUSH", "k1", "a">>
    /\ reply["c1"] = Tuple("k1", "a")
    /\ reply["c4"] = <<ReplyInt(1)>>
    /\ db["k1"] = NULL
    /\ blocking_keys = [k \in {"k1"} |-> <<"c2">>]
    /\ reply["c2"] = <<>>

\* C3 as stated: after every push onto a missing key k that is delivered to
\* a waiter of k, whatever its target, k is still absent.
C3_NeverCreates_Stated ==
    [][\A c \in CLIENTS, k \in KEYS, v \in BValues :
           (PushStep(c, k, v) /\ db[k] = NULL /\ Delivered(k)) => db'[k] = NULL]_vars

\* C3: after a push onto a missing key k that is delivered to a waiter of
\* k, k is still absent when the waiter is a plain blocking pop (no key
\* changes at all) and when its target is another key that has no waiters
\* (the value is at the head of the target).  k exists afterwards only when
\* the targets lead the value back to k, and then k holds exactly the value;
\* this is the case when the target of the only waiter is k itself.
NeverCreates ==
    \A c \in CLIENTS, k \in KEYS, v \in BValues :
        (PushStep(c, k, v) /\ db[k] = NULL /\ Delivered(k)) =>
            LET w == Receiver(k)
                t == bpop[w].target
            IN /\ (t = NOKEY) => db' = db
               /\ (t \notin {NOKEY, k} /\ Waiters(t) = <<>>) =>
                      /\ db'[k] = NULL
                      /\ db'[t].type = "list"
                      /\ Head(ListContents(db'[t])) = v
               /\ (db'[k] # NULL) =>
                      /\ t # NOKEY
                      /\ t = k \/ Waiters(t) # <<>>
                      /\ db'[k].type = "list"
                      /\ ListContents(db'[k]) = <<v>>
               /\ (t = k /\ Waiters(k) = <<w>>) => db'[k] # NULL

C3_NeverCreates == [][NeverCreates]_vars

\* The push LPUSH k1 a has been delivered to the BRPOPLPUSH k1 k2 of c2: the
\* value is in k2 and k1 is absent.
C3_Witness ==
    /\ argv["c4"] = <<"LPUSH", "k1", "a">>
    /\ reply["c2"] = <<ReplyBulk("a")>>
    /\ reply["c4"] = <<ReplyInt(1)>>
    /\ db["k1"] = NULL
    /\ db["k2"].type = "list" /\ ListContents(db["k2"]) = <<"a">>

\* C4: no double delivery.  A blocked client that receives a reply in a
\* step receives exactly one (for a plain blocking pop one (key, value) for
\* one of its keys) and is afterwards registered under none of its keys; a
\* client that is not blocked receives nothing from the commands of others,
\* so later pushes onto its other keys are inserted or go to other waiters.
OneReply(w) ==
    \/ /\ bpop[w].target = NOKEY
       /\ \E i \in 1..Len(bpop[w].keys) : \E v \in BValues :
              reply'[w] = Tuple(bpop[w].keys[i], v)
    \/ /\ bpop[w].target # NOKEY
       /\ \E v \in BValues : reply'[w] = <<ReplyBulk(v)>>
    \/ reply'[w] = <<shared_wrongtypeerr>>
    \/ reply'[w] = <<shared_nullmultibulk>>

NoDoubleDelivery ==
    \A w \in CLIENTS :
        /\ (Blocked(w) /\ reply'[w] # <<>>) =>
               /\ OneReply(w)
               /\ ~BlockedAfter(w)
               /\ bpop'[w].keys = <<>>
               /\ \A k \in KEYS : ~InSeq(WaitersAfter(k), w)
        /\ (~Blocked(w) /\ argv'[w] = <<>>) => reply'[w] = <<>>
        /\ (Blocked(w) /\ ~BlockedAfter(w)) =>
               \A k \in KEYS : ~InSeq(WaitersAfter(k), w)

C4_NoDoubleDelivery == [][NoDoubleDelivery]_vars

\* c1, which names two keys whenever it waits on k2, has been served through
\* k2 and is registered under no key, while c2 still waits on k1.
C4_Witness ==
    /\ \E v \in BValues : Pushed("c4", "k2", v) /\ reply["c1"] = Tuple("k2", v)
    /\ blocking_keys = [k \in {"k1"} |-> <<"c2">>]
    /\ bpop["c1"].keys = <<>>

\* C5: registry consistency.  A client is in the queue of key k as many
\* times as k occurs among the keys it waits on, it waits on some key iff it
\* is flagged blocked, no key of the registry has an empty queue, and the
\* assertions of unblockClientWaitingData have not failed.
C5_RegistryConsistent ==
    /\ \A c \in CLIENTS, k \in KEYS : Count(Waiters(k), c) = Count(bpop[c].keys, k)
    /\ \A c \in CLIENTS : (bpop[c].keys # <<>>) <=> Blocked(c)
    /\ \A k \in DOMAIN blocking_keys : blocking_keys[k] # <<>>
    /\ panic \notin {"unblockClientWaitingData: c->bpop.keys != NULL",
                     "unblockClientWaitingData: de != NULL",
                     "unblockClientWaitingData: listDelNode(NULL)"}

\* c2 has just been unblocked and its key has left the registry, while c1
\* waits on k2 twice.
C5_Witness ==
    /\ "REDIS_UNBLOCKED" \in flags["c2"]
    /\ bpop["c1"].keys = <<"k2", "k2">>
    /\ blocking_keys = [k \in {"k2"} |-> <<"c1", "c1">>]

\* C7 as stated: if dst exists and is not a list, RPOPLPUSH src dst replies
\* the wrong-type error and src, dst and the registry are unchanged.
C7_TypeError_Stated ==
    [][\A c \in CLIENTS, src \in KEYS, dst \in KEYS :
           (argv'[c] = <<"RPOPLPUSH", src, dst>> /\ db[dst].type \notin {"none", "list"}) =>
               /\ reply'[c] = <<shared_wrongtypeerr>>
               /\ db' = db /\ blocking_keys' = blocking_keys /\ bpop' = bpop]_vars

\* C7: if dst exists and is not a list, RPOPLPUSH src dst changes neither
\* src nor dst nor the registry; it replies the wrong-type error when src
\* exists, and nil when src is missing (the source is looked up first).
TypeErrorAtomic ==
    \A c \in CLIENTS, src \in KEYS, dst \in KEYS :
        (argv'[c] = <<"RPOPLPUSH", src, dst>> /\ db[dst].type \notin {"none", "list"}) =>
            /\ reply'[c] = IF db[src] = NULL THEN <<shared_nullbulk>>
                           ELSE <<shared_wrongtypeerr>>
            /\ db' = db /\ blocking_keys' = blocking_keys /\ bpop' = bpop
            /\ dirty' = 0

C7_TypeError == [][TypeErrorAtomic]_vars

\* RPOPLPUSH k1 k2 with a list under k1 and a set under k2 has replied the
\* wrong-type error.
C7_Witness ==
    /\ argv["c4"] = <<"RPOPLPUSH", "k1", "k2">>
    /\ reply["c4"] = <<shared_wrongtypeerr>>
    /\ db["k1"].type = "list" /\ db["k2"].type = "set"

(***************************************************************************)
(* SpecAll: every command of the two types on two keys, observed between   *)
(* commands (replies written out).  c1 issues the blocking commands, c4    *)
(* all others.                                                             *)
(***************************************************************************)
AMaxLen == 3
AObs == Obs(AMaxLen, TRUE)
\* Values of the list commands and of the set commands.
AValues == {"1", "a"}
ASetValues == {"1", "2", "a"}
AIndexes == {"0", "1", "-1"}
AWheres == {"BEFORE", "after"}
\* Traversal orders of a hash table holding values of ASetValues: every pair
\* of values comes in both orders.
AOrders == {<<"1", "2", "a">>, <<"a", "2", "1">>}
ARands == {0, 1, 2}
APerms == {<<1, 2>>, <<2, 1>>}
AKeyLists == {<<"k1">>, <<"k2">>, <<"k1", "k2">>, <<"k2", "k1">>}
ATimeouts == {"0", "1"}
\* What the environment decides for a command.
AOracle(o, r, q) == [ord |-> o, rnd |-> r, perm |-> q]

NextAll ==
    \/ \E k \in KEYS, v \in AValues : LPush("c4", k, v, AObs)
    \/ \E k \in KEYS, v \in AValues : RPush("c4", k, v, AObs)
    \/ \E k \in KEYS, v \in AValues : LPushX("c4", k, v, AObs)
    \/ \E k \in KEYS, v \in AValues : RPushX("c4", k, v, AObs)
    \/ \E k \in KEYS, w \in AWheres, p \in AValues, v \in AValues :
           LInsert("c4", k, w, p, v, AObs)
    \/ \E k \in KEYS : LLen("c4", k, AObs)
    \/ \E k \in KEYS, i \in AIndexes : LIndex("c4", k, i, AObs)
    \/ \E k \in KEYS, i \in AIndexes, v \in AValues : LSet("c4", k, i, v, AObs)
    \/ \E k \in KEYS : LPop("c4", k, AObs)
    \/ \E k \in KEYS : RPop("c4", k, AObs)
    \/ \E k \in KEYS, i \in AIndexes, j \in AIndexes : LRange("c4", k, i, j, AObs)
    \/ \E k \in KEYS, i \in AIndexes, j \in AIndexes : LTrim("c4", k, i, j, AObs)
    \/ \E k \in KEYS, i \in AIndexes, v \in AValues : LRem("c4", k, i, v, AObs)
    \/ \E k \in KEYS, h \in KEYS : RPopLPush("c4", k, h, AObs)
    \/ \E ks \in AKeyLists, t \in ATimeouts : BLPop("c1", ks, t, AObs)
    \/ \E ks \in AKeyLists, t \in ATimeouts : BRPop("c1", ks, t, AObs)
    \/ \E k \in KEYS, h \in KEYS : BRPopLPush("c1", k, h, "0", AObs)
    \/ \E k \in KEYS, v \in ASetValues : SAdd("c4", k, v, AObs)
    \/ \E k \in KEYS, v \in ASetValues : SRem("c4", k, v, AObs)
    \/ \E k \in KEYS, h \in KEYS, v \in ASetValues : SMove("c4", k, h, v, AObs)
    \/ \E k \in KEYS, v \in ASetValues : SIsMember("c4", k, v, AObs)
    \/ \E k \in KEYS : SCard("c4", k, AObs)
    \/ \E k \in KEYS, o \in AOrders, r \in ARands :
           SPop("c4", k, AOracle(o, r, <<>>), AObs)
    \/ \E k \in KEYS, o \in AOrders, r \in ARands :
           SRandMember("c4", k, AOracle(o, r, <<>>), AObs)
    \/ \E ks \in AKeyLists, o \in AOrders, q \in APerms :
           SInter("c4", ks, AOracle(o, 0, q), AObs)
    \/ \E d \in KEYS, ks \in AKeyLists, o \in AOrders, q \in APerms :
           SInterStore("c4", d, ks, AOracle(o, 0, q), AObs)
    \/ \E ks \in AKeyLists, o \in AOrders : SUnion("c4", ks, AOracle(o, 0, <<>>), AObs)
    \/ \E d \in KEYS, ks \in AKeyLists, o \in AOrders :
           SUnionStore("c4", d, ks, AOracle(o, 0, <<>>), AObs)
    \/ \E ks \in AKeyLists, o \in AOrders : SDiff("c4", ks, AOracle(o, 0, <<>>), AObs)
    \/ \E d \in KEYS, ks \in AKeyLists, o \in AOrders :
           SDiffStore("c4", d, ks, AOracle(o, 0, <<>>), AObs)
    \/ Timeout("c1", AObs)
    \/ Disconnect("c1", AObs)

SpecAll == Init /\ [][NextAll]_vars

(***************************************************************************)
(* Claims checked under SpecAll.  Its states are the states between two    *)
(* commands; what the next command makes of such a state is call on it.    *)
(***************************************************************************)
\* C6: Empty-key deletion.  After every completed command no key holds a
\* list of length 0 or a set of size 0, and the assertion
\* tlistLength(key) > 0 of BRPOPLPUSH has never failed.
C6_NoEmptyKey ==
    /\ \A k \in KEYS :
        /\ db[k].type = "list" => tlistLength(db[k]) > 0
        /\ db[k].type = "set" => tsetSize(db[k]) > 0
    /\ panic # "brpoplpush: tlistLength(key) > 0"

\* k1 is a linked list that has shrunk to one element and k2 a hash table
\* that has shrunk to one member; the trim and the pop that empty them
\* leave the keys absent, and BRPOPLPUSH passes its assertion on k1.
C6_Witness ==
    /\ panic = "" /\ "REDIS_BLOCKED" \notin flags["c1"]
    /\ db["k1"].type = "list" /\ db["k1"].encoding = "linkedlist"
    /\ tlistLength(db["k1"]) = 1
    /\ db["k2"].type = "set" /\ db["k2"].encoding = "hashtable"
    /\ tsetSize(db["k2"]) = 1
    /\ call(Begin("c4", <<"LTRIM", "k1", "1", "0">>), "c4",
            <<"LTRIM", "k1", "1", "0">>, NoOracle).db["k1"] = NULL
    /\ call(Begin("c4", <<"SPOP", "k2">>), "c4", <<"SPOP", "k2">>,
            AOracle(<<>>, 0, <<>>)).db["k2"] = NULL
    /\ LET r == call(Begin("c1", <<"BRPOPLPUSH", "k1", "k1", "0">>), "c1",
                     <<"BRPOPLPUSH", "k1", "k1", "0">>, NoOracle)
       IN r.panic = "" /\ tlistLength(r.db["k1"]) = 1

\* Arguments of the commands applied to every state of SpecAll.
CValues == {"1", "a", "xxxx"}
CPivots == {"1", "a"}
CMembers == {"1", "2", "a", "01"}

\* The commands that work on a list in place.
CListInPlace ==
    {<<op, k, v>> : op \in {"LPUSH", "RPUSH", "LPUSHX", "RPUSHX"},
                    k \in KEYS, v \in CValues}
    \cup {<<"LINSERT", k, w, p, v>> : k \in KEYS, w \in AWheres,
                                      p \in CPivots, v \in CValues}
    \cup {<<"LSET", k, i, v>> : k \in KEYS, i \in AIndexes, v \in CValues}
    \cup {<<op, k>> : op \in {"LPOP", "RPOP"}, k \in KEYS}
    \cup {<<"LTRIM", k, i, j>> : k \in KEYS, i \in AIndexes, j \in AIndexes}
    \cup {<<"LREM", k, i, v>> : k \in KEYS, i \in AIndexes, v \in CPivots}
    \cup {<<"RPOPLPUSH", k, h>> : k \in KEYS, h \in KEYS}

\* The commands that work on a set in place.
CSetInPlace ==
    {<<op, k, v>> : op \in {"SADD", "SREM"}, k \in KEYS, v \in CMembers}
    \cup {<<"SMOVE", k, h, v>> : k \in KEYS, h \in KEYS, v \in ASetValues}
    \cup {<<"SPOP", k>> : k \in KEYS}

\* The commands that read.
CReads ==
    {<<"LLEN", k>> : k \in KEYS}
    \cup {<<"LINDEX", k, i>> : k \in KEYS, i \in AIndexes}
    \cup {<<"LRANGE", k, i, j>> : k \in KEYS, i \in AIndexes, j \in AIndexes}
    \cup {<<"SISMEMBER", k, v>> : k \in KEYS, v \in CMembers}
    \cup {<<"SCARD", k>> : k \in KEYS}
    \cup {<<"SRANDMEMBER", k>> : k \in KEYS}
    \cup {<<op>> \o ks : op \in {"SINTER", "SUNION", "SDIFF"}, ks \in AKeyLists}

\* The commands that store a set.
CStores ==
    {<<op, d>> \o ks : op \in {"SINTERSTORE", "SUNIONSTORE", "SDIFFSTORE"},
                       d \in KEYS, ks \in AKeyLists}

\* The blocking commands, which pop when they find an element.
CBlocking ==
    {<<op>> \o ks \o <<"0">> : op \in {"BLPOP", "BRPOP"}, ks \in AKeyLists}
    \cup {<<"BRPOPLPUSH", k, h, "0">> : k \in KEYS, h \in KEYS}

\* The choices of the environment a command depends on.
COraclesOf(av) ==
    IF av[1] \in {"SPOP", "SRANDMEMBER"}
    THEN {AOracle(o, r, <<>>) : o \in AOrders, r \in ARands}
    ELSE IF av[1] \in {"SINTER", "SINTERSTORE"}
    THEN {AOracle(o, 0, q) : o \in AOrders, q \in APerms}
    ELSE IF av[1] \in {"SUNION", "SUNIONSTORE", "SDIFF", "SDIFFSTORE"}
    THEN {AOracle(o, 0, <<>>) : o \in AOrders}
    ELSE {NoOracle}

\* Encodings of the keys of r that reverted from those of the current state.
Reverted(r) ==
    {k \in KEYS :
        \/ /\ db[k].type = "list" /\ db[k].encoding = "linkedlist"
           /\ r.db[k] # NULL
           /\ ~(r.db[k].type = "list" /\ r.db[k].encoding = "linkedlist")
        \/ /\ db[k].type = "set" /\ db[k].encoding = "hashtable"
           /\ r.db[k] # NULL
           /\ ~(r.db[k].type = "set" /\ r.db[k].encoding = "hashtable")}

\* C8: Promotion monotonicity.  Whatever in-place command (push, pop, LSET,
\* LINSERT, LTRIM, LREM, RPOPLPUSH, the blocking pops, SADD, SREM, SMOVE,
\* SPOP) runs next, a key that holds a Linked list (a HashSet) and is still
\* present afterwards holds a Linked list (a HashSet) afterwards.
C8_PromotionMonotonic ==
    /\ panic = "" =>
        \A av \in CListInPlace \cup CSetInPlace : \A orc \in COraclesOf(av) :
            Reverted(call(Begin("c4", av), "c4", av, orc)) = {}
    /\ Ready("c1") =>
        \A av \in CBlocking :
            Reverted(call(Begin("c1", av), "c1", av, NoOracle)) = {}

\* k1 is a linked list and k2 a hash table of integers, both below the
\* thresholds, and a pop and a removal leave them present.
C8_Witness ==
    /\ panic = ""
    /\ db["k1"].type = "list" /\ db["k1"].encoding = "linkedlist"
    /\ tlistLength(db["k1"]) = 2
    /\ db["k2"].type = "set" /\ db["k2"].encoding = "hashtable"
    /\ tsetSize(db["k2"]) = 2
    /\ \A e \in db["k2"].ptr : isObjectRepresentableAsLongLong(e)
    /\ tlistLength(call(Begin("c4", <<"LPOP", "k1">>), "c4", <<"LPOP", "k1">>,
                        NoOracle).db["k1"]) = 1
    /\ tsetSize(call(Begin("c4", <<"SREM", "k2", "1">>), "c4",
                     <<"SREM", "k2", "1">>, NoOracle).db["k2"]) = 1

\* The same keyspace with every packed container expanded.
ExpandObject(o) ==
    IF o.type = "list" THEN tlistConvert(o, "linkedlist")
    ELSE IF o.type = "set" /\ o.encoding = "intset" THEN tsetConvert(o, "hashtable")
    ELSE o

Expanded(s) == [s EXCEPT !.db = [k \in KEYS |-> ExpandObject(s.db[k])]]

\* The members of a set object, as byte strings.
SetContents(o) ==
    IF o.encoding = "intset" THEN {ll2string(n) : n \in o.ptr}
    ELSE {Bytes(e) : e \in o.ptr}

\* The logical contents of a keyspace: per key the sequence or the set of
\* byte strings it holds.
Contents(o) ==
    IF o.type = "list" THEN [type |-> "list", elements |-> ListContents(o)]
    ELSE IF o.type = "set" THEN [type |-> "set", elements |-> SetContents(o)]
    ELSE [type |-> "none", elements |-> {}]

Logical(s) == [k \in KEYS |-> Contents(s.db[k])]

\* Two reply buffers hold the same items, in any order behind the first.
SameItems(a, b) ==
    /\ Len(a) = Len(b)
    /\ Len(a) > 0 => Head(a) = Head(b)
    /\ \A i \in 1..Len(a) : Count(a, a[i]) = Count(b, a[i])

\* What a client can tell apart, and what it cannot, of two outcomes.
SameOutcome(p, e) ==
    /\ p.reply = e.reply
    /\ Logical(p) = Logical(e)
    /\ p.panic = e.panic

SameOutcomeUpToOrder(av, p, e) ==
    /\ IF av[1] \in {"SINTER", "SUNION", "SDIFF"}
       THEN \A c \in CLIENTS : SameItems(p.reply[c], e.reply[c])
       ELSE p.reply = e.reply
    /\ Logical(p) = Logical(e)
    /\ p.panic = e.panic

CCommands == CListInPlace \cup CSetInPlace \cup CReads \cup CStores

\* C9 as stated: every outcome of a command on the packed keyspace is an
\* outcome of it on the expanded keyspace, reply for reply, and conversely.
C9_Transparent_Stated ==
    (panic = "" /\ Expanded(St) # St) =>
        \A av \in CCommands : \A orc \in COraclesOf(av) :
            /\ \E orc2 \in COraclesOf(av) :
                   SameOutcome(call(Begin("c4", av), "c4", av, orc),
                               call(Expanded(Begin("c4", av)), "c4", av, orc2))
            /\ \E orc2 \in COraclesOf(av) :
                   SameOutcome(call(Begin("c4", av), "c4", av, orc2),
                               call(Expanded(Begin("c4", av)), "c4", av, orc))

\* The outcomes of av on the packed and on the expanded keyspace agree: under
\* the same choices of the environment, or for SPOP and SRANDMEMBER, whose
\* reply is the choice, each outcome on one side is an outcome on the other.
Transparent(av) ==
    IF av[1] \in {"SPOP", "SRANDMEMBER"}
    THEN \A orc \in COraclesOf(av) :
            /\ \E orc2 \in COraclesOf(av) :
                   SameOutcome(call(Begin("c4", av), "c4", av, orc),
                               call(Expanded(Begin("c4", av)), "c4", av, orc2))
            /\ \E orc2 \in COraclesOf(av) :
                   SameOutcome(call(Begin("c4", av), "c4", av, orc2),
                               call(Expanded(Begin("c4", av)), "c4", av, orc))
    ELSE \A orc \in COraclesOf(av) :
            SameOutcomeUpToOrder(av, call(Begin("c4", av), "c4", av, orc),
                                 call(Expanded(Begin("c4", av)), "c4", av, orc))

\* C9: Encoding transparency.  Expanding the packed containers of a keyspace
\* keeps its logical contents, and every list or set command then yields
\* the same resulting logical contents and the same reply on both, where
\* the members in the multi-bulk reply of SINTER, SUNION and SDIFF may come
\* in a different order (SINTER replies them in the traversal order of the
\* smallest set; the other two in that of a set built from the traversals).
C9_Transparent ==
    (panic = "" /\ Expanded(St) # St) =>
        /\ Logical(Expanded(St)) = Logical(St)
        /\ \A av \in CCommands : Transparent(av)

\* k1 is an intset of two members and k2 a packed list of two elements;
\* SINTER k1 replies the members of the expanded set in the order of its
\* hash table, which the intset never does.
C9_Witness ==
    /\ panic = ""
    /\ db["k1"].type = "set" /\ db["k1"].encoding = "intset"
    /\ tsetSize(db["k1"]) = 2
    /\ db["k2"].type = "list" /\ db["k2"].encoding = "ziplist"
    /\ tlistLength(db["k2"]) = 2
    /\ LET av == <<"SINTER", "k1">>
           orc == AOracle(<<"a", "2", "1">>, 0, <<>>)
           p == call(Begin("c4", av), "c4", av, orc)
           e == call(Expanded(Begin("c4", av)), "c4", av, orc)
       IN /\ p.reply["c4"] # e.reply["c4"]
          /\ SameItems(p.reply["c4"], e.reply["c4"])


(***************************************************************************)
(* SpecList: one client works on the list k1 and reads ranges of it; a     *)
(* state shows the command that ran last and its reply.                    *)
(***************************************************************************)
LMaxLen == 3
LObs == Obs(LMaxLen, FALSE)
\* An integer, a short string and a string longer than list_max_ziplist_value.
LValues == {"1", "a", "xxxx"}
\* Indexes from before the head to behind the tail of the longest list.
LIndexes == {ll2string(i) : i \in (-(LMaxLen + 1))..(LMaxLen + 1)}

NextList ==
    \/ \E v \in LValues : LPush("c4", "k1", v, LObs)
    \/ \E v \in LValues : RPush("c4", "k1", v, LObs)
    \/ LPop("c4", "k1", LObs)
    \/ RPop("c4", "k1", LObs)
    \/ \E i \in LIndexes, j \in LIndexes : LRange("c4", "k1", i, j, LObs)
    \/ \E i \in LIndexes : LIndex("c4", "k1", i, LObs)
    \/ LLen("c4", "k1", LObs)

SpecList == Init /\ [][NextList]_vars

\* The positions start..end of a list of length n that LRANGE is to reply:
\* negative indexes count from the tail, start is clamped to 0 and end to
\* n - 1.
RangePositions(n, i, j) ==
    LET start == IF i < 0 THEN (IF n + i < 0 THEN 0 ELSE n + i) ELSE i
        end == IF j < 0 THEN n + j ELSE (IF j >= n THEN n - 1 ELSE j)
    IN {p \in 0..(n - 1) : start <= p /\ p <= end}

\* The multi-bulk reply of the elements of l at the positions P, in list
\* order.
RangeReply(l, P) ==
    <<ReplyMultiBulkLen(Cardinality(P))>>
    \o [x \in 1..Cardinality(P) |->
            ReplyBulk(l[1 + CHOOSE p \in P : Cardinality({q \in P : q < p}) = x - 1])]

\* A step in which c4 runs LRANGE on a key that holds a list.
LRangeStep ==
    /\ Len(argv'["c4"]) = 4 /\ argv'["c4"][1] = "LRANGE"
    /\ db[argv'["c4"][2]].type = "list"

\* C10: LRANGE key start end on a list of length n replies exactly the
\* elements at the positions start..end, after negative indexes are counted
\* from the tail, start is clamped to 0 and end to n - 1, in list order and
\* behind a multi-bulk count of end - start + 1; the reply is empty when
\* start > end or start >= n; LRANGE key 0 -1 replies the whole list; the
\* list is not modified.
C10_LRange ==
    [][LRangeStep =>
        LET k == argv'["c4"][2]
            l == ListContents(db[k])
            i == atoi(argv'["c4"][3])
            j == atoi(argv'["c4"][4])
        IN /\ reply'["c4"] = RangeReply(l, RangePositions(Len(l), i, j))
           /\ (i = 0 /\ j = -1) =>
                  reply'["c4"] = <<ReplyMultiBulkLen(Len(l))>>
                                 \o [x \in 1..Len(l) |-> ReplyBulk(l[x])]
           /\ db' = db]_vars

\* LRANGE k1 -2 4 on a linked list of three elements has replied its last
\* two.
C10_Witness ==
    /\ argv["c4"] = <<"LRANGE", "k1", "-2", "4">>
    /\ db["k1"].type = "list" /\ db["k1"].encoding = "linkedlist"
    /\ tlistLength(db["k1"]) = 3
    /\ reply["c4"] = <<ReplyMultiBulkLen(2),
                       ReplyBulk(Bytes(db["k1"].ptr[2])),
                       ReplyBulk(Bytes(db["k1"].ptr[3]))>>

\* A step in which c4 runs LINDEX on a key that holds a list.
LIndexStep ==
    /\ Len(argv'["c4"]) = 3 /\ argv'["c4"][1] = "LINDEX"
    /\ db[argv'["c4"][2]].type = "list"

\* The reply of LRANGE k i i in the state before the step.
LRangeOne(k, i) ==
    lrangeCommand(Begin("c4", <<"LRANGE", k, i, i>>), "c4", k, i, i).reply["c4"]

\* C11: for every list and every signed index i, before the head and behind
\* the tail included, LINDEX k i replies the single element of LRANGE k i i
\* when that range is not empty, and replies nil exactly when LRANGE k i i
\* is empty.
C11_LIndexLRange ==
    [][LIndexStep =>
        LET r == LRangeOne(argv'["c4"][2], argv'["c4"][3])
        IN /\ r = <<shared_emptymultibulk>> \/ (Len(r) = 2 /\ r[1] = ReplyMultiBulkLen(1))
           /\ Len(r) = 2 => reply'["c4"] = <<r[2]>>
           /\ reply'["c4"] = <<shared_nullbulk>> <=> r = <<shared_emptymultibulk>>]_vars

\* LINDEX k1 -3 on a linked list of three elements has replied its head, and
\* LINDEX k1 -4 would reply nil.
C11_Witness ==
    /\ argv["c4"] = <<"LINDEX", "k1", "-3">>
    /\ db["k1"].type = "list" /\ db["k1"].encoding = "linkedlist"
    /\ tlistLength(db["k1"]) = 3
    /\ reply["c4"] = <<ReplyBulk(Bytes(db["k1"].ptr[1]))>>
    /\ LRangeOne("k1", "-3") = <<ReplyMultiBulkLen(1), ReplyBulk(Bytes(db["k1"].ptr[1]))>>
    /\ LRangeOne("k1", "-4") = <<shared_emptymultibulk>>

(***************************************************************************)
(* SpecEdit: one client edits the list at k1 in place.  The lists are      *)
(* built by pushes at both ends, in both encodings; the commands trim,     *)
(* remove by value and insert at a pivot.                                  *)
(***************************************************************************)
EMaxLen == 3
EObs == Obs(EMaxLen, FALSE)
\* Counts and indexes from beyond the length of the longest list.
EIndexes == {ll2string(i) : i \in (-(EMaxLen + 1))..(EMaxLen + 1)}

NextEdit ==
    \/ \E v \in LValues : LPush("c4", "k1", v, EObs)
    \/ \E v \in LValues : RPush("c4", "k1", v, EObs)
    \/ \E i \in EIndexes, j \in EIndexes : LTrim("c4", "k1", i, j, EObs)
    \/ \E n \in EIndexes, v \in LValues : LRem("c4", "k1", n, v, EObs)
    \/ \E w \in AWheres, p \in LValues, v \in LValues :
           LInsert("c4", "k1", w, p, v, EObs)

SpecEdit == Init /\ [][NextEdit]_vars

\* The elements of l at the positions P, in list order.
Pick(l, P) ==
    [x \in 1..Cardinality(P) |->
        l[1 + CHOOSE p \in P : Cardinality({q \in P : q < p}) = x - 1]]

\* A step in which c4 runs LTRIM.
LTrimStep == Len(argv'["c4"]) = 4 /\ argv'["c4"][1] = "LTRIM"

\* C12: LTRIM key start end leaves the list equal to what LRANGE key start
\* end would have replied before the command, the prefix before start and
\* the suffix behind end removed and the order kept; it deletes the key when
\* that is empty, and replies OK.  LTRIM key 0 -1 leaves the contents
\* unchanged, and LTRIM on a missing key replies OK and creates nothing.
C12_LTrim ==
    [][LTrimStep =>
        LET k == argv'["c4"][2]
            i == argv'["c4"][3]
            j == argv'["c4"][4]
        IN /\ reply'["c4"] = <<shared_ok>>
           /\ \A h \in KEYS \ {k} : db'[h] = db[h]
           /\ IF db[k] = NULL THEN db'[k] = NULL
              ELSE LET l == ListContents(db[k])
                       kept == Pick(l, RangePositions(Len(l), atoi(i), atoi(j)))
                   IN /\ Tail(lrangeCommand(Begin("c4", <<"LRANGE", k, i, j>>),
                                            "c4", k, i, j).reply["c4"])
                           = [x \in 1..Len(kept) |-> ReplyBulk(kept[x])]
                      /\ IF kept = <<>> THEN db'[k] = NULL
                         ELSE /\ db'[k].type = "list"
                              /\ ListContents(db'[k]) = kept
                      /\ (i = "0" /\ j = "-1") => ListContents(db'[k]) = l]_vars

\* LTRIM k1 1 -2 has left the middle element of a linked list, and LTRIM k1
\* 1 0 would delete the key.
C12_Witness ==
    /\ argv["c4"] = <<"LTRIM", "k1", "1", "-2">>
    /\ reply["c4"] = <<shared_ok>>
    /\ db["k1"].type = "list" /\ db["k1"].encoding = "linkedlist"
    /\ ListContents(db["k1"]) = <<"xxxx">>
    /\ ltrimCommand(Begin("c4", <<"LTRIM", "k1", "1", "0">>),
                    "c4", "k1", "1", "0").db["k1"] = NULL

\* A step in which c4 runs LREM.
LRemStep == Len(argv'["c4"]) = 4 /\ argv'["c4"][1] = "LREM"

\* The positions of l, counted from 0, that LREM count v is to remove: the
\* first count occurrences of v, the last -count, or all of them.
RemPositions(l, count, v) ==
    LET occ == {p \in 0..(Len(l) - 1) : l[p + 1] = v}
        before(p) == Cardinality({q \in occ : q < p})
        behind(p) == Cardinality({q \in occ : q > p})
    IN IF count > 0 THEN {p \in occ : before(p) < count}
       ELSE IF count < 0 THEN {p \in occ : behind(p) < -count}
       ELSE occ

\* C13: LREM key count value removes, with count > 0, the first min(count,
\* occurrences) elements equal to value from head to tail; with count < 0
\* the last min(-count, occurrences) from tail to head; with count = 0 all
\* of them.  The reply is the number removed, the other elements keep their
\* order, and the key is deleted if the list becomes empty.
C13_LRem ==
    [][LRemStep =>
        LET k == argv'["c4"][2]
            count == atoi(argv'["c4"][3])
            v == argv'["c4"][4]
        IN /\ \A h \in KEYS \ {k} : db'[h] = db[h]
           /\ IF db[k] = NULL
              THEN db'[k] = NULL /\ reply'["c4"] = <<ReplyInt(0)>>
              ELSE LET l == ListContents(db[k])
                       R == RemPositions(l, count, v)
                       occ == Count(l, v)
                       kept == Pick(l, (0..(Len(l) - 1)) \ R)
                   IN /\ Cardinality(R) =
                            IF count = 0 THEN occ
                            ELSE IF count > 0
                            THEN (IF count < occ THEN count ELSE occ)
                            ELSE (IF -count < occ THEN -count ELSE occ)
                      /\ reply'["c4"] = <<ReplyInt(Cardinality(R))>>
                      /\ IF kept = <<>> THEN db'[k] = NULL
                         ELSE /\ db'[k].type = "list"
                              /\ ListContents(db'[k]) = kept]_vars

\* LREM k1 -1 a on the list a, 1, a has removed the a at the tail.
C13_Witness ==
    /\ argv["c4"] = <<"LREM", "k1", "-1", "a">>
    /\ reply["c4"] = <<ReplyInt(1)>>
    /\ db["k1"].type = "list"
    /\ ListContents(db["k1"]) = <<"a", "1">>

\* LREM k1 2 xxxx on a linked list with three elements, two of them xxxx at
\* the head, has removed those and left the third.
C13_WitnessLinked ==
    /\ argv["c4"] = <<"LREM", "k1", "2", "xxxx">>
    /\ reply["c4"] = <<ReplyInt(2)>>
    /\ db["k1"].type = "list" /\ db["k1"].encoding = "linkedlist"
    /\ Len(db["k1"].ptr) = 1

\* A step in which c4 runs LINSERT.
LInsertStep == Len(argv'["c4"]) = 5 /\ argv'["c4"][1] = "LINSERT"

\* C14: LINSERT key BEFORE|AFTER pivot value inserts value immediately
\* before or after the first element, from the head, equal to pivot and
\* replies the new length, the old length plus one; if no element equals
\* pivot it replies -1 and the list contents are unchanged; if the key is
\* missing it replies 0 and no key is created.
C14_LInsert ==
    [][LInsertStep =>
        LET k == argv'["c4"][2]
            after == tolower(argv'["c4"][3]) = "after"
            pivot == argv'["c4"][4]
            v == argv'["c4"][5]
        IN /\ tolower(argv'["c4"][3]) \in {"before", "after"}
           /\ \A h \in KEYS \ {k} : db'[h] = db[h]
           /\ IF db[k] = NULL
              THEN db'[k] = NULL /\ reply'["c4"] = <<ReplyInt(0)>>
              ELSE LET l == ListContents(db[k])
                   IN /\ db'[k].type = "list"
                      /\ IF Count(l, pivot) = 0
                         THEN /\ reply'["c4"] = <<ReplyInt(-1)>>
                              /\ ListContents(db'[k]) = l
                         ELSE LET p == CHOOSE q \in 1..Len(l) :
                                          /\ l[q] = pivot
                                          /\ \A x \in 1..(q - 1) : l[x] # pivot
                                  at == IF after THEN p ELSE p - 1
                              IN /\ reply'["c4"] = <<ReplyInt(Len(l) + 1)>>
                                 /\ ListContents(db'[k]) =
                                        SubSeq(l, 1, at) \o <<v>>
                                        \o SubSeq(l, at + 1, Len(l))]_vars

\* LINSERT k1 after a 1 on the list a, a has put the 1 behind the first a.
C14_Witness ==
    /\ argv["c4"] = <<"LINSERT", "k1", "after", "a", "1">>
    /\ reply["c4"] = <<ReplyInt(3)>>
    /\ db["k1"].type = "list"
    /\ ListContents(db["k1"]) = <<"a", "1", "a">>

\* The sequence a key holds: empty when the key is missing.
Deque(d, k) == IF d[k] = NULL THEN <<>> ELSE ListContents(d[k])

\* A step in which c4 runs one of the commands of a double-ended sequence.
DequeStep ==
    /\ Len(argv'["c4"]) >= 2
    /\ argv'["c4"][1] \in {"LPUSH", "RPUSH", "LPOP", "RPOP", "LLEN"}

\* C15: with no waiters involved, a list behaves as a double-ended sequence
\* under any interleaving of LPUSH, RPUSH, LPOP, RPOP and LLEN.  LPUSH
\* prepends and RPUSH appends, creating the key if it is missing, and reply
\* the new length; LPOP and RPOP remove and reply the head and the tail
\* element, or nil on a missing key; LLEN replies the length, 0 if the key
\* is missing; the same across the promotion from packed to linked.
C15_Deque ==
    [][DequeStep =>
        LET cmd == argv'["c4"][1]
            k == argv'["c4"][2]
            l == Deque(db, k)
            n == Deque(db', k)
            r == reply'["c4"]
        IN /\ db'[k] = NULL \/ (db'[k].type = "list" /\ n # <<>>)
           /\ cmd = "LPUSH" =>
                  n = <<argv'["c4"][3]>> \o l /\ r = <<ReplyInt(Len(l) + 1)>>
           /\ cmd = "RPUSH" =>
                  n = l \o <<argv'["c4"][3]>> /\ r = <<ReplyInt(Len(l) + 1)>>
           /\ cmd = "LPOP" =>
                  IF l = <<>> THEN n = <<>> /\ r = <<shared_nullbulk>>
                  ELSE n = Tail(l) /\ r = <<ReplyBulk(Head(l))>>
           /\ cmd = "RPOP" =>
                  IF l = <<>> THEN n = <<>> /\ r = <<shared_nullbulk>>
                  ELSE /\ n = SubSeq(l, 1, Len(l) - 1)
                       /\ r = <<ReplyBulk(l[Len(l)])>>
           /\ cmd = "LLEN" => db' = db /\ r = <<ReplyInt(Len(l))>>]_vars

\* LPUSH k1 1 has put a third element at the head of a list without a long
\* value, now linked, and LLEN k1 would reply 3.
C15_Witness ==
    /\ argv["c4"] = <<"LPUSH", "k1", "1">>
    /\ reply["c4"] = <<ReplyInt(3)>>
    /\ db["k1"].type = "list" /\ db["k1"].encoding = "linkedlist"
    /\ ListContents(db["k1"]) = <<"1", "a", "a">>
    /\ llenCommand(Begin("c4", <<"LLEN", "k1">>), "c4", "k1").reply["c4"]
         = <<ReplyInt(3)>>

(***************************************************************************)
(* SpecPop: the blocking pops where they are served at once, refused or    *)
(* fail fast.  c1 issues them, outside and inside a transaction, with      *)
(* timeouts that are zero, positive, negative and not a number; c2 waits   *)
(* on k1; c4 builds lists of up to two elements and sets.                  *)
(***************************************************************************)
PMaxLen == 2
PObs == Obs(PMaxLen, FALSE)
PValues == {"1", "a"}
PKeyLists == {<<"k1">>, <<"k1", "k2">>, <<"k2", "k1">>}
PTimeouts == {"0", "1", "-1", "a"}

NextPop ==
    \/ \E k \in KEYS, v \in PValues : LPush("c4", k, v, PObs)
    \/ \E k \in KEYS, v \in PValues : RPush("c4", k, v, PObs)
    \/ \E k \in KEYS : SAdd("c4", k, "1", PObs)
    \/ \E k \in KEYS : SRem("c4", k, "1", PObs)
    \/ \E ks \in PKeyLists, x \in PTimeouts : BLPop("c1", ks, x, PObs)
    \/ \E ks \in PKeyLists, x \in PTimeouts : BRPop("c1", ks, x, PObs)
    \/ \E k \in KEYS, h \in KEYS, x \in PTimeouts :
           BRPopLPush("c1", k, h, x, PObs)
    \/ BLPop("c2", <<"k1">>, "0", PObs)
    \/ Multi("c1", PObs)
    \/ Exec("c1", PObs)
    \/ \E c \in {"c1", "c2"} : Timeout(c, PObs)
    \/ \E c \in {"c1", "c2"} : Disconnect(c, PObs)

SpecPop == Init /\ [][NextPop]_vars

\* The key arguments and the timeout argument of the BLPOP or BRPOP in av.
PopKeys(av) == SubSeq(av, 2, Len(av) - 1)
PopTimeout(av) == av[Len(av)]

\* A step in which c1 runs BLPOP or BRPOP with a timeout that is accepted.
BPopStep ==
    /\ Len(argv'["c1"]) >= 3 /\ argv'["c1"][1] \in {"BLPOP", "BRPOP"}
    /\ PopTimeout(argv'["c1"]) \in {"0", "1"}

\* The positions of the key arguments that hold a list with elements, and
\* those that hold a value of another type, before the step.
ListArgs(keys) ==
    {j \in 1..Len(keys) : db[keys[j]].type = "list" /\ Deque(db, keys[j]) # <<>>}
OtherArgs(keys) ==
    {j \in 1..Len(keys) : db[keys[j]] # NULL /\ db[keys[j]].type # "list"}
FirstOf(J) == CHOOSE j \in J : \A i \in J : j <= i

\* The step has popped keys[j] at the end the command names, replied the
\* key and the value to c1 and left c1 unblocked.
PoppedArg(keys, j) ==
    LET k == keys[j]
        l == Deque(db, k)
        head == argv'["c1"][1] = "BLPOP"
        v == IF head THEN l[1] ELSE l[Len(l)]
    IN /\ reply'["c1"] = <<ReplyMultiBulkLen(2), ReplyBulk(k), ReplyBulk(v)>>
       /\ Deque(db', k) = IF head THEN Tail(l) ELSE SubSeq(l, 1, Len(l) - 1)
       /\ \A h \in KEYS \ {k} : db'[h] = db[h]
       /\ "REDIS_BLOCKED" \notin flags'["c1"]
       /\ blocking_keys' = blocking_keys

\* C16 as stated: whenever at least one of the keys BLPOP or BRPOP names
\* holds a non-empty list, the command pops the first such key in argument
\* order, from the head for BLPOP and the tail for BRPOP, replies the key
\* and the value, and the client is not blocked.
C16_Pop_Stated ==
    [][BPopStep =>
        LET keys == PopKeys(argv'["c1"])
        IN ListArgs(keys) # {} => PoppedArg(keys, FirstOf(ListArgs(keys)))]_vars

\* C16, amended: that holds whenever no key named before the first non-empty
\* list holds a value of another type; when one does, the command replies
\* the wrong-type error, pops nothing and the client is not blocked.
C16_Pop ==
    [][BPopStep =>
        LET keys == PopKeys(argv'["c1"])
            L == ListArgs(keys)
            O == OtherArgs(keys)
        IN /\ (L # {} /\ \A j \in O : FirstOf(L) < j) =>
                  PoppedArg(keys, FirstOf(L))
           /\ (L # {} /\ \E j \in O : j < FirstOf(L)) =>
                  /\ reply'["c1"] = <<shared_wrongtypeerr>>
                  /\ db' = db
                  /\ "REDIS_BLOCKED" \notin flags'["c1"]]_vars

\* BRPOP k1 k2 0 has passed the missing k1 and popped one of the two
\* elements of k2.
C16_Witness ==
    /\ argv["c1"] = <<"BRPOP", "k1", "k2", "0">>
    /\ db["k1"] = NULL
    /\ db["k2"].type = "list" /\ Deque(db, "k2") = <<"1">>
    /\ reply["c1"] = <<ReplyMultiBulkLen(2), ReplyBulk("k2"), ReplyBulk("a")>>
    /\ "REDIS_BLOCKED" \notin flags["c1"]

\* The source keys a blocking command names.
SourceKeys(av) ==
    IF av[1] = "BRPOPLPUSH" THEN {av[2]}
    ELSE {av[j] : j \in 2..(Len(av) - 1)}

\* A step in which c1, inside a transaction, runs a blocking command with a
\* timeout that is accepted while every source key it names is missing (an
\* empty list is never kept under a key).
MultiBlockingStep ==
    /\ "REDIS_MULTI" \in flags["c1"]
    /\ Len(argv'["c1"]) >= 3
    /\ argv'["c1"][1] \in {"BLPOP", "BRPOP", "BRPOPLPUSH"}
    /\ PopTimeout(argv'["c1"]) \in {"0", "1"}
    /\ \A k \in SourceKeys(argv'["c1"]) : db[k] = NULL

\* c is in no queue of the registry after the step.
UnregisteredAfter(c) ==
    /\ ~BlockedAfter(c)
    /\ \A k \in KEYS : ~InSeq(WaitersAfter(k), c)

\* C17 as stated: a client inside a transaction is never registered in the
\* blocking registry; BLPOP, BRPOP and BRPOPLPUSH issued inside a
\* transaction when every named source key is missing or empty reply
\* nil-multi-bulk at once and leave the client unblocked and the registry
\* unchanged, also with timeout 0.
C17_MultiNeverBlocks_Stated ==
    [][/\ \A c \in CLIENTS : "REDIS_MULTI" \in flags'[c] => UnregisteredAfter(c)
       /\ MultiBlockingStep =>
              /\ reply'["c1"] = <<shared_nullmultibulk>>
              /\ UnregisteredAfter("c1")
              /\ blocking_keys' = blocking_keys /\ bpop' = bpop
              /\ db' = db]_vars

\* C17, amended: the same, except that the reply of BRPOPLPUSH is the nil
\* bulk.
C17_MultiNeverBlocks ==
    [][/\ \A c \in CLIENTS : "REDIS_MULTI" \in flags'[c] => UnregisteredAfter(c)
       /\ MultiBlockingStep =>
              /\ reply'["c1"] =
                     IF argv'["c1"][1] = "BRPOPLPUSH" THEN <<shared_nullbulk>>
                     ELSE <<shared_nullmultibulk>>
              /\ UnregisteredAfter("c1")
              /\ blocking_keys' = blocking_keys /\ bpop' = bpop
              /\ db' = db]_vars

\* Inside a transaction, BLPOP k1 k2 0 on two missing keys has replied
\* nil-multi-bulk while c2 keeps waiting on k1.
C17_Witness ==
    /\ argv["c1"] = <<"BLPOP", "k1", "k2", "0">>
    /\ "REDIS_MULTI" \in flags["c1"] /\ ~Blocked("c1")
    /\ reply["c1"] = <<shared_nullmultibulk>>
    /\ db["k1"] = NULL /\ db["k2"] = NULL
    /\ Waiters("k1") = <<"c2">> /\ Waiters("k2") = <<>>

\* Inside a transaction, BRPOPLPUSH k1 k2 0 on a missing k1 has replied the
\* nil bulk while c2 keeps waiting on k1.
C17_WitnessTarget ==
    /\ argv["c1"] = <<"BRPOPLPUSH", "k1", "k2", "0">>
    /\ "REDIS_MULTI" \in flags["c1"] /\ ~Blocked("c1")
    /\ reply["c1"] = <<shared_nullbulk>>
    /\ db["k1"] = NULL
    /\ Waiters("k1") = <<"c2">>

\* A step in which c1 runs a blocking command.
BlockingStep ==
    /\ Len(argv'["c1"]) >= 3
    /\ argv'["c1"][1] \in {"BLPOP", "BRPOP", "BRPOPLPUSH"}

\* C18: a negative or non-integer timeout on BLPOP, BRPOP or BRPOPLPUSH
\* yields an error reply and mutates nothing: no element is popped even when
\* a named key holds a non-empty list, no key is created or deleted, and the
\* client is not blocked.  A timeout of 0 is accepted and means no deadline.
C18_BadTimeout ==
    [][BlockingStep =>
        LET x == PopTimeout(argv'["c1"])
            r == reply'["c1"]
        IN /\ x \in {"-1", "a"} =>
                  /\ r = <<ReplyErr(IF x = "-1" THEN "timeout is negative"
                                    ELSE "timeout is not an integer or out of range")>>
                  /\ db' = db
                  /\ blocking_keys' = blocking_keys /\ bpop' = bpop
                  /\ ~BlockedAfter("c1")
           /\ x \in {"0", "1"} =>
                  /\ \A i \in 1..Len(r) :
                         r[i].t = "err" => r[i] = shared_wrongtypeerr
                  /\ BlockedAfter("c1") =>
                         bpop'["c1"].timeout = IF x = "0" THEN 0 ELSE unixtime + 1]_vars

\* BRPOP k1 -1 has replied the error and left the two elements of k1.
C18_Witness ==
    /\ argv["c1"] = <<"BRPOP", "k1", "-1">>
    /\ reply["c1"] = <<ReplyErr("timeout is negative")>>
    /\ db["k1"].type = "list" /\ Len(db["k1"].ptr) = 2
    /\ ~Blocked("c1")

\* BLPOP k1 0 on a missing key has blocked c1 without a deadline.
C18_WitnessZero ==
    /\ argv["c1"] = <<"BLPOP", "k1", "0">>
    /\ Blocked("c1") /\ bpop["c1"].timeout = 0
    /\ InSeq(Waiters("k1"), "c1")

(***************************************************************************)
(* Further properties of the blocking rendezvous, checked under Spec.      *)
(***************************************************************************)
\* The number of places that hold the value v: the elements equal to v of
\* the lists of d, and the plain blocking pops that r answers with v.
Holdings(d, r, v) ==
    LET inList(k) == IF d[k].type = "list" THEN Count(ListContents(d[k]), v) ELSE 0
        taken == {w \in CLIENTS : \E k \in KEYS : r[w] = Tuple(k, v)}
    IN inList("k1") + inList("k2") + Cardinality(taken)

\* The waiters of k that a push onto k passes over: those in front of the
\* first one that can take the value, all of them when none can.
PassedOver(k) ==
    LET q == Waiters(k)
        f == FirstEligible(k)
    IN SubSeq(q, 1, IF f = 0 THEN Len(q) ELSE f - 1)

\* C19: when a push onto k reaches a BRPOPLPUSH waiter w whose target key
\* exists but is not a list, w receives the wrong-type error and is
\* unblocked, the value is not consumed, and delivery proceeds to the
\* next-oldest waiter of k; if every waiter fails this way the value is
\* inserted into k by the normal push path, so the pushed value is never
\* lost.
TypeMismatchRecovery ==
    \A c \in CLIENTS, k \in KEYS, v \in BValues :
        (PushStep(c, k, v) /\ db[k].type \in {"none", "list"}) =>
            LET q == Waiters(k)
                f == FirstEligible(k)
                over == PassedOver(k)
            IN /\ \A j \in 1..Len(over) :
                      /\ reply'[over[j]] = <<shared_wrongtypeerr>>
                      /\ ~BlockedAfter(over[j])
                      /\ \A h \in KEYS : ~InSeq(WaitersAfter(h), over[j])
                      /\ db'[bpop[over[j]].target] = db[bpop[over[j]].target]
               /\ f # 0 =>
                      /\ reply'[q[f]] \in {Tuple(k, v), <<ReplyBulk(v)>>}
                      /\ ~BlockedAfter(q[f])
                      /\ reply'[c] = <<ReplyInt(1)>>
               /\ f = 0 =>
                      /\ db'[k].type = "list"
                      /\ ListContents(db'[k]) =
                             IF argv'[c][1] = "LPUSH" THEN <<v>> \o Deque(db, k)
                             ELSE Deque(db, k) \o <<v>>
                      /\ reply'[c] = <<ReplyInt(Len(Deque(db, k)) + 1)>>
                      /\ WaitersAfter(k) = <<>>
               /\ Holdings(db', reply', v) = Holdings(db, NoReply, v) + 1

C19_TypeMismatchRecovery == [][TypeMismatchRecovery]_vars

\* LPUSH k1 a has passed over c1, whose target k2 holds a set, and has been
\* delivered to c2.
C19_Witness ==
    /\ argv["c4"] = <<"LPUSH", "k1", "a">>
    /\ reply["c1"] = <<shared_wrongtypeerr>> /\ ~Blocked("c1")
    /\ reply["c2"] \in {Tuple("k1", "a"), <<ReplyBulk("a")>>}
    /\ reply["c4"] = <<ReplyInt(1)>>
    /\ db["k1"] = NULL /\ db["k2"].type = "set"

\* RPUSH k1 a has passed over c1 and c2, whose targets hold a set, and has
\* been inserted into k1.
C19_WitnessInserted ==
    /\ argv["c4"] = <<"RPUSH", "k1", "a">>
    /\ reply["c1"] = <<shared_wrongtypeerr>>
    /\ reply["c2"] = <<shared_wrongtypeerr>>
    /\ reply["c4"] = <<ReplyInt(1)>>
    /\ db["k1"].type = "list" /\ ListContents(db["k1"]) = <<"a">>
    /\ Waiters("k1") = <<>>

(***************************************************************************)
(* SpecTarget: pushes that wake a BRPOPLPUSH waiter whose target holds a   *)
(* list already, has waiters of its own, or is the key itself.  c1 and c2  *)
(* pop into a target, c3 waits with a plain blocking pop, c4 pushes.       *)
(***************************************************************************)
TMaxLen == 2
TObs == Obs(TMaxLen, FALSE)

NextTarget ==
    \/ \E k \in KEYS, v \in BValues : LPush("c4", k, v, TObs)
    \/ \E k \in KEYS, v \in BValues : RPush("c4", k, v, TObs)
    \/ \E k \in KEYS : LPop("c4", k, TObs)
    \/ \E k \in KEYS : SAdd("c4", k, "1", TObs)
    \/ \E k \in KEYS : SRem("c4", k, "1", TObs)
    \/ \E c \in {"c1", "c2"}, k \in KEYS, h \in KEYS :
           BRPopLPush(c, k, h, "0", TObs)
    \/ \E k \in KEYS : BLPop("c3", <<k>>, "0", TObs)
    \/ \E c \in Consumers : Disconnect(c, TObs)

SpecTarget == Init /\ [][NextTarget]_vars

\* A push of v onto k by c wakes a waiter that pops into a target.
WakesTarget(c, k, v) ==
    /\ PushStep(c, k, v) /\ Delivered(k)
    /\ bpop[Receiver(k)].target # NOKEY

\* The queue of the target t of the receiver of k when the value reaches
\* it: the receiver and the waiters in front of it have left the queue of k.
TargetQueue(k, t) ==
    IF t = k THEN SubSeq(Waiters(k), FirstEligible(k) + 1, Len(Waiters(k)))
    ELSE Waiters(t)

CommitBeforeReply ==
    \A c \in CLIENTS, k \in KEYS, v \in BValues :
        WakesTarget(c, k, v) =>
            LET w == Receiver(k)
                t == bpop[w].target
                tq == TargetQueue(k, t)
                can == {j \in 1..Len(tq) : Eligible(tq[j])}
                first == FirstOf(can)
            IN /\ reply'[w] = <<ReplyBulk(v)>>
               /\ reply'[c] = <<ReplyInt(1)>>
               /\ IF can = {}
                  THEN /\ db'[t].type = "list"
                       /\ ListContents(db'[t]) = <<v>> \o Deque(db, t)
                       /\ \A j \in 1..Len(tq) : reply'[tq[j]] = <<shared_wrongtypeerr>>
                  ELSE /\ reply'[tq[first]] \in {Tuple(t, v), <<ReplyBulk(v)>>}
                       /\ \A j \in 1..(first - 1) :
                              reply'[tq[j]] = <<shared_wrongtypeerr>>
                       /\ bpop[tq[first]].target = NOKEY => db' = db
               /\ db'[k] # db[k] =>
                      \/ t = k
                      \/ \E j \in 1..Len(tq) : bpop[tq[j]].target = k

C20_WitnessHanded ==
    /\ argv["c4"] = <<"RPUSH", "k1", "a">>
    /\ reply["c1"] = <<ReplyBulk("a")>>
    /\ reply["c3"] = Tuple("k2", "a")
    /\ db["k1"] = NULL /\ db["k2"] = NULL

(***************************************************************************)
(* SpecSet: the set commands on two keys, observed between commands.  The  *)
(* members are three integers, one more than an intset may hold, and a     *)
(* string; a key may also hold a list of one element.  A property of a     *)
(* command is stated of its outcome on every reachable state.              *)
(***************************************************************************)
SObs == Obs(BMaxLen, TRUE)
SValues == {"1", "2", "3", "a"}
\* Traversal orders of a hash table: every pair of members in both orders.
SOrders == {<<"1", "2", "3", "a">>, <<"a", "3", "2", "1">>}
SRands == {0, 1, 2, 3}
SKeyLists == {<<"k1">>, <<"k1", "k2">>, <<"k2", "k1">>, <<"k1", "k1">>,
              <<"k1", "k1", "k2">>, <<"k2", "k1", "k2">>}
SRandom == {AOracle(o, r, <<>>) : o \in SOrders, r \in SRands}
SSorted == {AOracle(o, 0, q) : o \in SOrders, q \in APerms}
STraversed == {AOracle(o, 0, <<>>) : o \in SOrders}

NextSet ==
    \/ \E k \in KEYS, v \in SValues : SAdd("c4", k, v, SObs)
    \/ \E k \in KEYS, v \in SValues : SRem("c4", k, v, SObs)
    \/ \E k \in KEYS, h \in KEYS, v \in SValues : SMove("c4", k, h, v, SObs)
    \/ \E k \in KEYS, v \in SValues : SIsMember("c4", k, v, SObs)
    \/ \E k \in KEYS : SCard("c4", k, SObs)
    \/ \E k \in KEYS, orc \in SRandom : SPop("c4", k, orc, SObs)
    \/ \E k \in KEYS, orc \in SRandom : SRandMember("c4", k, orc, SObs)
    \/ \E ks \in SKeyLists, orc \in SSorted : SInter("c4", ks, orc, SObs)
    \/ \E d \in KEYS, ks \in SKeyLists, orc \in SSorted :
           SInterStore("c4", d, ks, orc, SObs)
    \/ \E ks \in SKeyLists, orc \in STraversed : SUnion("c4", ks, orc, SObs)
    \/ \E d \in KEYS, ks \in SKeyLists, orc \in STraversed :
           SUnionStore("c4", d, ks, orc, SObs)
    \/ \E ks \in SKeyLists, orc \in STraversed : SDiff("c4", ks, orc, SObs)
    \/ \E d \in KEYS, ks \in SKeyLists, orc \in STraversed :
           SDiffStore("c4", d, ks, orc, SObs)
    \/ \E k \in KEYS : LPush("c4", k, "a", SObs)
    \/ \E k \in KEYS : LPop("c4", k, SObs)

SpecSet == Init /\ [][NextSet]_vars

\* The outcome of the command av of c4 on the current state.
Outcome(av, orc) == call(Begin("c4", av), "c4", av, orc)

\* The members of the set under k: none when the key is missing.
Members(d, k) == IF d[k].type = "set" THEN SetContents(d[k]) ELSE {}

\* C21: SPOP key on an existing set removes exactly one element e that was
\* a member before the command, replies e, and rewrites the command vector
\* of the client to exactly (SREM, key, e), three arguments, before the
\* handler returns; the size of the set decreases by exactly 1 and the key
\* is deleted if the set becomes empty.
C21_SPop ==
    \A k \in KEYS : db[k].type = "set" =>
        \A orc \in SRandom :
            LET r == Outcome(<<"SPOP", k>>, orc)
                before == Members(db, k)
            IN \E e \in before :
                   /\ r.reply["c4"] = <<ReplyBulk(e)>>
                   /\ r.argv["c4"] = <<"SREM", k, e>> /\ Len(r.argv["c4"]) = 3
                   /\ Members(r.db, k) = before \ {e}
                   /\ IF before = {e} THEN r.db[k] = NULL
                      ELSE /\ r.db[k].type = "set"
                           /\ tsetSize(r.db[k]) = tsetSize(db[k]) - 1
                   /\ \A h \in KEYS \ {k} : r.db[h] = db[h]
                   /\ r.panic = ""

\* k1 holds the members 1 and a in a hash table and k2 the single member 3;
\* SPOP k1 pops a under one choice of the environment and 1 under another,
\* and SPOP k2 deletes k2.
C21_Witness ==
    /\ db["k1"].type = "set" /\ Members(db, "k1") = {"1", "a"}
    /\ db["k2"].type = "set" /\ Members(db, "k2") = {"3"}
    /\ \E orc \in SRandom :
           LET r == Outcome(<<"SPOP", "k1">>, orc)
           IN r.argv["c4"] = <<"SREM", "k1", "a">> /\ Members(r.db, "k1") = {"1"}
    /\ \E orc \in SRandom :
           Outcome(<<"SPOP", "k1">>, orc).reply["c4"] = <<ReplyBulk("1")>>
    /\ \A orc \in SRandom : Outcome(<<"SPOP", "k2">>, orc).db["k2"] = NULL

\* C22: SMOVE src dst v replies 1 if and only if v was a member of src
\* before the command, and replies 0 when v is absent from src or src is
\* missing; also when src and dst are the same key, where the command
\* leaves the set as it is.  (Stated of keys that hold sets or are missing.)
C22_SMove ==
    \A src \in KEYS, dst \in KEYS, v \in SValues :
        (db[src].type \in {"none", "set"} /\ db[dst].type \in {"none", "set"}) =>
            LET r == Outcome(<<"SMOVE", src, dst, v>>, NoOracle)
            IN /\ r.reply["c4"] = IF v \in Members(db, src) THEN <<ReplyInt(1)>>
                                  ELSE <<ReplyInt(0)>>
               /\ src = dst => r.db = db

\* The same for two different keys, where the code agrees: the member moves
\* and the reply is 1, or nothing changes and the reply is 0.
C22_SMoveDistinct ==
    \A src \in KEYS : \A dst \in KEYS \ {src}, v \in SValues :
        (db[src].type \in {"none", "set"} /\ db[dst].type \in {"none", "set"}) =>
            LET r == Outcome(<<"SMOVE", src, dst, v>>, NoOracle)
            IN IF v \in Members(db, src)
               THEN /\ r.reply["c4"] = <<ReplyInt(1)>>
                    /\ Members(r.db, src) = Members(db, src) \ {v}
                    /\ Members(r.db, dst) = Members(db, dst) \cup {v}
               ELSE r.reply["c4"] = <<ReplyInt(0)>> /\ r.db = db

\* k1 holds a set without the member 2, and SMOVE k1 k1 2 replies 1.
C22_SameKeyAbsent ==
    /\ db["k1"].type = "set" /\ "2" \notin Members(db, "k1")
    /\ Outcome(<<"SMOVE", "k1", "k1", "2">>, NoOracle).reply["c4"] = <<ReplyInt(1)>>

\* The sources of a command are sets or missing keys.
SetSources(keys) == \A i \in 1..Len(keys) : db[keys[i]].type \in {"none", "set"}

\* The mathematical results over the members of the named keys, a missing
\* key counting as the empty set.
InterOf(d, keys) == {e \in Members(d, keys[1]) :
                        \A i \in 1..Len(keys) : e \in Members(d, keys[i])}
UnionOf(d, keys) == UNION {Members(d, keys[i]) : i \in 1..Len(keys)}
DiffOf(d, keys) == Members(d, keys[1]) \ UNION {Members(d, keys[i]) : i \in 2..Len(keys)}

\* A multi-bulk reply rep that emits exactly the members of R: a length
\* header equal to the number of bulks behind it, each member once.
EmitsExactly(rep, R) ==
    /\ Len(rep) = Cardinality(R) + 1
    /\ rep[1] = ReplyMultiBulkLen(Len(rep) - 1)
    /\ {rep[i] : i \in 2..Len(rep)} = {ReplyBulk(e) : e \in R}

\* C23: SINTER k1..kn replies exactly the intersection of the named sets,
\* each element once behind a length header that counts them, whatever the
\* order of the keys, the encodings of the sets, the order of traversal
\* and the order qsort leaves sets of equal size in; a missing key makes
\* the result empty; no key is modified.
C23_SInter ==
    \A keys \in SKeyLists, orc \in SSorted :
        SetSources(keys) =>
            LET r == Outcome(<<"SINTER">> \o keys, orc)
            IN /\ EmitsExactly(r.reply["c4"], InterOf(db, keys))
               /\ (\E i \in 1..Len(keys) : db[keys[i]] = NULL)
                      => r.reply["c4"] = <<ReplyMultiBulkLen(0)>>
               /\ r.db = db
               /\ r.dirty = 0

\* A set of byte strings in a hash table and a set of integers in an intset
\* share one member of two each, and SINTER replies that member for either
\* order of the keys.
C23_Witness ==
    /\ db["k1"].type = "set" /\ db["k1"].encoding = "hashtable"
    /\ db["k2"].type = "set" /\ db["k2"].encoding = "intset"
    /\ Members(db, "k1") = {"1", "a"} /\ Members(db, "k2") = {"1", "2"}
    /\ \A keys \in {<<"k1", "k2">>, <<"k2", "k1">>}, orc \in SSorted :
           Outcome(<<"SINTER">> \o keys, orc).reply["c4"]
               = <<ReplyMultiBulkLen(1), ReplyBulk("1")>>

\* C24: SUNION replies exactly the union of the named sets and SDIFF
\* exactly the first set minus the union of the others, a missing key
\* counting as the empty set (so SDIFF with a missing first key is empty);
\* the length header equals the number of elements emitted, each once;
\* the early exit of SDIFF on an empty running result changes nothing;
\* no key is modified.
C24_SUnionSDiff ==
    \A keys \in SKeyLists, orc \in STraversed :
        SetSources(keys) =>
            LET u == Outcome(<<"SUNION">> \o keys, orc)
                d == Outcome(<<"SDIFF">> \o keys, orc)
            IN /\ EmitsExactly(u.reply["c4"], UnionOf(db, keys))
               /\ EmitsExactly(d.reply["c4"], DiffOf(db, keys))
               /\ db[keys[1]] = NULL => d.reply["c4"] = <<ReplyMultiBulkLen(0)>>
               /\ u.db = db /\ d.db = db
               /\ u.dirty = 0 /\ d.dirty = 0

\* Two overlapping sets of different encodings: the union has three
\* members, the difference one, and SDIFF k1 k1 k2 leaves its loop at the
\* second source with an empty result.
C24_Witness ==
    /\ db["k1"].type = "set" /\ db["k2"].type = "set"
    /\ Members(db, "k1") = {"1", "a"} /\ Members(db, "k2") = {"1", "2"}
    /\ \A orc \in STraversed :
           /\ Len(Outcome(<<"SUNION", "k1", "k2">>, orc).reply["c4"]) = 4
           /\ Outcome(<<"SDIFF", "k1", "k2">>, orc).reply["c4"]
                  = <<ReplyMultiBulkLen(1), ReplyBulk("a")>>
           /\ Outcome(<<"SDIFF", "k1", "k1", "k2">>, orc).reply["c4"]
                  = <<ReplyMultiBulkLen(0)>>

\* SUNION over a missing first key replies the members of the second.
C24_WitnessMissing ==
    /\ db["k1"] = NULL /\ db["k2"].type = "set"
    /\ Members(db, "k2") = {"2", "a"}
    /\ \A orc \in STraversed :
           /\ Len(Outcome(<<"SUNION", "k1", "k2">>, orc).reply["c4"]) = 3
           /\ Outcome(<<"SDIFF", "k1", "k2">>, orc).reply["c4"]
                  = <<ReplyMultiBulkLen(0)>>

\* After a storing command the key dst holds exactly the set R and nothing
\* when R is empty, the reply is the size of R, and the other keys are as
\* they were in d.
Stored(r, d, dst, R) ==
    /\ IF R = {} THEN r.db[dst] = NULL
       ELSE r.db[dst].type = "set" /\ SetContents(r.db[dst]) = R
    /\ r.reply["c4"] = <<ReplyInt(Cardinality(R))>>
    /\ \A k \in KEYS \ {dst} : r.db[k] = d[k]

\* C25: SINTERSTORE / SUNIONSTORE / SDIFFSTORE dst k1..kn leave in dst
\* exactly the result computed from the sources as they were before the
\* command, whatever dst held (a list, a set, nothing, one of the sources),
\* or no key dst when the result is empty; the reply is the cardinality of
\* the result; every other key is unchanged.
C25_Store ==
    \A dst \in KEYS, keys \in SKeyLists, orc \in SSorted \cup STraversed :
        SetSources(keys) =>
            /\ Stored(Outcome(<<"SINTERSTORE", dst>> \o keys, orc), db, dst,
                      InterOf(db, keys))
            /\ Stored(Outcome(<<"SUNIONSTORE", dst>> \o keys, orc), db, dst,
                      UnionOf(db, keys))
            /\ Stored(Outcome(<<"SDIFFSTORE", dst>> \o keys, orc), db, dst,
                      DiffOf(db, keys))

\* The destination holds a list and the source a set: SUNIONSTORE replaces
\* the list by the set, and SDIFFSTORE k2 k1 k1 removes the key.
C25_Witness ==
    /\ db["k2"].type = "list" /\ db["k1"].type = "set"
    /\ Members(db, "k1") = {"1", "a"}
    /\ LET u == Outcome(<<"SUNIONSTORE", "k2", "k1">>, NoOracle)
           d == Outcome(<<"SDIFFSTORE", "k2", "k1", "k1">>, NoOracle)
       IN /\ Members(u.db, "k2") = {"1", "a"}
          /\ u.reply["c4"] = <<ReplyInt(2)>>
          /\ d.db["k2"] = NULL
          /\ d.reply["c4"] = <<ReplyInt(0)>>

\* The destination is one of the sources: SINTERSTORE k1 k1 k2 leaves in
\* k1 the intersection of the two sets as they were.
C25_WitnessSource ==
    /\ db["k1"].type = "set" /\ db["k2"].type = "set"
    /\ Members(db, "k1") = {"1", "a"} /\ Members(db, "k2") = {"1", "2"}
    /\ \A orc \in SSorted :
           Members(Outcome(<<"SINTERSTORE", "k1", "k1", "k2">>, orc).db, "k1") = {"1"}

\* Some source of the command exists and holds something other than a set.
WrongTypeSource(keys) == \E i \in 1..Len(keys) : db[keys[i]].type \notin {"none", "set"}

\* A missing key stands before the first source that is no set.
MissingBeforeWrongType(keys) ==
    \E i \in 1..Len(keys) :
        /\ db[keys[i]] = NULL
        /\ \A j \in 1..(i - 1) : db[keys[j]].type = "set"
        /\ \E j \in (i + 1)..Len(keys) : db[keys[j]].type \notin {"none", "set"}

\* The command av is refused for the type of a key and changes nothing.
Refused(av, orc) ==
    LET r == Outcome(av, orc)
    IN /\ r.reply["c4"] = <<shared_wrongtypeerr>>
       /\ r.db = db
       /\ r.dirty = 0

SetOps == {"SINTER", "SUNION", "SDIFF"}
StoreOps == {"SINTERSTORE", "SUNIONSTORE", "SDIFFSTORE"}

\* C26: for SINTER, SINTERSTORE, SUNION, SUNIONSTORE, SDIFF and SDIFFSTORE,
\* whenever a source key exists and holds a value that is no set, the reply
\* is the wrong-type error and no key is modified, wherever that key stands
\* among the sources and whether or not other sources are missing.
C26_WrongType ==
    \A keys \in SKeyLists, orc \in SSorted \cup STraversed :
        WrongTypeSource(keys) =>
            /\ \A op \in SetOps : Refused(<<op>> \o keys, orc)
            /\ \A op \in StoreOps, dst \in KEYS : Refused(<<op, dst>> \o keys, orc)

\* What the code does: the union and difference commands refuse in every
\* such case, the intersection commands when no missing key stands before
\* the first source that is no set.
C26_WrongTypeInOrder ==
    \A keys \in SKeyLists, orc \in SSorted \cup STraversed :
        WrongTypeSource(keys) =>
            /\ \A op \in {"SUNION", "SDIFF"} : Refused(<<op>> \o keys, orc)
            /\ \A op \in {"SUNIONSTORE", "SDIFFSTORE"}, dst \in KEYS :
                   Refused(<<op, dst>> \o keys, orc)
            /\ ~MissingBeforeWrongType(keys) =>
                   /\ Refused(<<"SINTER">> \o keys, orc)
                   /\ \A dst \in KEYS : Refused(<<"SINTERSTORE", dst>> \o keys, orc)

\* k1 is missing and k2 holds a list: SINTER k1 k2 replies an empty
\* multi-bulk, and SINTERSTORE k2 k1 k2 replies 0 and deletes the list.
C26_MissingFirst ==
    /\ db["k1"] = NULL /\ db["k2"].type = "list"
    /\ Outcome(<<"SINTER", "k1", "k2">>, NoOracle).reply["c4"] = <<shared_emptymultibulk>>
    /\ LET r == Outcome(<<"SINTERSTORE", "k2", "k1", "k2">>, NoOracle)
       IN r.reply["c4"] = <<shared_czero>> /\ r.db["k2"] = NULL

(***************************************************************************)
(* SpecPacked: every command that puts an element into a list, on two keys *)
(* and with an integer, a short string and a string longer than            *)
(* list_max_ziplist_value.  c4 issues the commands, c1 waits with          *)
(* BRPOPLPUSH for a push to hand it an element for its target.             *)
(***************************************************************************)
KMaxLen == 3
KObs == Obs(KMaxLen, TRUE)
KValues == {"1", "a", "xxxx"}
KPivots == {"1", "xxxx"}
KIndexes == {ll2string(i) : i \in (-(KMaxLen + 1))..KMaxLen}

NextPacked ==
    \/ \E k \in KEYS, v \in KValues : LPush("c4", k, v, KObs)
    \/ \E k \in KEYS, v \in KValues : RPush("c4", k, v, KObs)
    \/ \E k \in KEYS, v \in KValues : LPushX("c4", k, v, KObs)
    \/ \E k \in KEYS, v \in KValues : RPushX("c4", k, v, KObs)
    \/ \E k \in KEYS, w \in AWheres, pivot \in KPivots, v \in KValues :
           LInsert("c4", k, w, pivot, v, KObs)
    \/ \E k \in KEYS, i \in KIndexes, v \in KValues : LSet("c4", k, i, v, KObs)
    \/ \E src \in KEYS, dst \in KEYS : RPopLPush("c4", src, dst, KObs)
    \/ \E k \in KEYS : LPop("c4", k, KObs)
    \/ \E src \in KEYS, dst \in KEYS : BRPopLPush("c1", src, dst, "0", KObs)
    \/ Disconnect("c1", KObs)

SpecPacked == Init /\ [][NextPacked]_vars

\* The index argument i addresses no element of a list of n elements.
OutOfRange(i, n) == atoi(i) >= n \/ atoi(i) < -n

\* C27: LSET key i v with an index that addresses no element replies the
\* out-of-range error and mutates nothing: the elements, the length, the
\* encoding (Packed stays Packed, also for a value longer than
\* list_max_ziplist_value) and the dirty counter are unchanged; on a missing
\* key it replies the no-such-key error and creates nothing.
C27_LSetOutOfRange_Stated ==
    \A k \in KEYS, i \in KIndexes, v \in KValues :
        LET r == Outcome(<<"LSET", k, i, v>>, NoOracle)
        IN /\ (db[k].type = "list" /\ OutOfRange(i, tlistLength(db[k]))) =>
                  /\ r.reply["c4"] = <<shared_outofrangeerr>>
                  /\ r.db = db
                  /\ r.dirty = 0
           /\ db[k] = NULL =>
                  /\ r.reply["c4"] = <<shared_nokeyerr>>
                  /\ r.db = db
                  /\ r.dirty = 0

\* C27, as the code has it: the elements, the length and the dirty counter
\* are unchanged and the other key is untouched; the encoding is unchanged
\* unless the list is Packed and v is a byte string longer than
\* list_max_ziplist_value, when the list is left Linked.
C27_LSetOutOfRange ==
    \A k \in KEYS, i \in KIndexes, v \in KValues :
        LET r == Outcome(<<"LSET", k, i, v>>, NoOracle)
        IN /\ (db[k].type = "list" /\ OutOfRange(i, tlistLength(db[k]))) =>
                  /\ r.reply["c4"] = <<shared_outofrangeerr>>
                  /\ r.db[k].type = "list"
                  /\ ListContents(r.db[k]) = ListContents(db[k])
                  /\ r.db[k].encoding =
                         IF db[k].encoding = "ziplist" /\ Len(v) > list_max_ziplist_value
                            /\ tryObjectEncoding(createStringObject(v)).encoding = "raw"
                         THEN "linkedlist" ELSE db[k].encoding
                  /\ \A h \in KEYS \ {k} : r.db[h] = db[h]
                  /\ r.dirty = 0
           /\ db[k] = NULL =>
                  /\ r.reply["c4"] = <<shared_nokeyerr>>
                  /\ r.db = db
                  /\ r.dirty = 0

\* A Packed list of two elements, and LSET with an index behind its tail:
\* a short value leaves the list as it is, a long one leaves it Linked.
C27_Witness ==
    /\ db["k1"].type = "list" /\ db["k1"].encoding = "ziplist"
    /\ tlistLength(db["k1"]) = 2
    /\ LET r == Outcome(<<"LSET", "k1", "2", "a">>, NoOracle)
           x == Outcome(<<"LSET", "k1", "2", "xxxx">>, NoOracle)
       IN /\ r.reply["c4"] = <<shared_outofrangeerr>> /\ r.db = db
          /\ x.reply["c4"] = <<shared_outofrangeerr>>
          /\ x.db["k1"].encoding = "linkedlist"
          /\ ListContents(x.db["k1"]) = ListContents(db["k1"])

\* The outcome of the command av of c4 when it follows the command that
\* left the state r.
Then(r, av) == call([Flush(r) EXCEPT !.argv["c4"] = av], "c4", av, NoOracle)

\* C28: SADD key v replies 1 and adds v when v was absent, and replies 0
\* and leaves the set unchanged when v was a member; after it a second
\* SADD key v replies 0 and changes nothing, SISMEMBER replies 1 for v and
\* for every earlier member (also when the command promoted the set from
\* IntSet to HashSet) and 0 for every other value, and SCARD replies the
\* number of distinct members.
C28_SAdd ==
    \A k \in KEYS, v \in SValues :
        db[k].type \in {"none", "set"} =>
            LET before == Members(db, k)
                r == Outcome(<<"SADD", k, v>>, NoOracle)
                again == Then(r, <<"SADD", k, v>>)
            IN /\ IF v \in before
                  THEN r.reply["c4"] = <<ReplyInt(0)>> /\ r.db = db /\ r.dirty = 0
                  ELSE /\ r.reply["c4"] = <<ReplyInt(1)>>
                       /\ Members(r.db, k) = before \cup {v}
                       /\ \A h \in KEYS \ {k} : r.db[h] = db[h]
               /\ again.reply["c4"] = <<ReplyInt(0)>>
               /\ again.db = r.db
               /\ \A w \in SValues :
                      Then(r, <<"SISMEMBER", k, w>>).reply["c4"]
                          = <<ReplyInt(IF w \in before \cup {v} THEN 1 ELSE 0)>>
               /\ Then(r, <<"SCARD", k>>).reply["c4"]
                      = <<ReplyInt(Cardinality(before \cup {v}))>>

\* An IntSet holds 1, SADD of a non-integer promotes it, and 1 is still
\* reported as present: SADD 1 replies 0, SISMEMBER 1 replies 1, SCARD 2.
C28_Witness ==
    /\ db["k1"].type = "set" /\ db["k1"].encoding = "intset"
    /\ Members(db, "k1") = {"1"}
    /\ LET r == Outcome(<<"SADD", "k1", "a">>, NoOracle)
       IN /\ r.reply["c4"] = <<ReplyInt(1)>>
          /\ r.db["k1"].encoding = "hashtable"
          /\ Then(r, <<"SADD", "k1", "1">>).reply["c4"] = <<ReplyInt(0)>>
          /\ Then(r, <<"SISMEMBER", "k1", "1">>).reply["c4"] = <<ReplyInt(1)>>
          /\ Then(r, <<"SCARD", "k1">>).reply["c4"] = <<ReplyInt(2)>>

\* An IntSet at set_max_intset_entries is promoted by one more integer,
\* and the integers are all still reported as present.
C28_WitnessCount ==
    /\ db["k1"].type = "set" /\ db["k1"].encoding = "intset"
    /\ Members(db, "k1") = {"1", "2"}
    /\ LET r == Outcome(<<"SADD", "k1", "3">>, NoOracle)
       IN /\ r.db["k1"].encoding = "hashtable"
          /\ Then(r, <<"SADD", "k1", "1">>).reply["c4"] = <<ReplyInt(0)>>
          /\ Then(r, <<"SCARD", "k1">>).reply["c4"] = <<ReplyInt(3)>>

\* A list object within the bounds of the Packed encoding.
WithinPackedBounds(o) ==
    /\ tlistLength(o) <= list_max_ziplist_entries
    /\ \A i \in 1..Len(o.ptr) :
           o.ptr[i].encoding = "raw" => sdslen(o.ptr[i].ptr) <= list_max_ziplist_value

\* C29: after every completed command, every list with the Packed encoding
\* has at most list_max_ziplist_entries elements and no byte-string element
\* longer than list_max_ziplist_value, whichever command inserted last:
\* LPUSH/RPUSH, LPUSHX/RPUSHX, LINSERT, LSET, RPOPLPUSH or the delivery of a
\* push into the target of a BRPOPLPUSH waiter.
C29_PackedBound ==
    \A k \in KEYS :
        (db[k].type = "list" /\ db[k].encoding = "ziplist") => WithinPackedBounds(db[k])

\* The key after the command av of c4 holds a Linked list of n elements.
LinkedAfter(av, k, n) ==
    LET o == Outcome(av, NoOracle).db[k]
    IN o.type = "list" /\ o.encoding = "linkedlist" /\ tlistLength(o) = n

\* k1 holds a Packed list at list_max_ziplist_entries and k2 a shorter one:
\* each inserting command that would cross a bound leaves the list Linked.
C29_Witness ==
    /\ db["k1"].type = "list" /\ db["k1"].encoding = "ziplist"
    /\ ListContents(db["k1"]) = <<"1", "a">>
    /\ db["k2"].type = "list" /\ db["k2"].encoding = "ziplist"
    /\ ListContents(db["k2"]) = <<"1">>
    /\ LinkedAfter(<<"LPUSH", "k1", "1">>, "k1", 3)
    /\ LinkedAfter(<<"RPUSHX", "k1", "a">>, "k1", 3)
    /\ LinkedAfter(<<"LINSERT", "k1", "BEFORE", "1", "a">>, "k1", 3)
    /\ LinkedAfter(<<"LINSERT", "k2", "after", "1", "xxxx">>, "k2", 2)
    /\ LinkedAfter(<<"LSET", "k1", "0", "xxxx">>, "k1", 2)
    /\ LinkedAfter(<<"RPOPLPUSH", "k2", "k1">>, "k1", 3)
    /\ LinkedAfter(<<"RPUSH", "k2", "xxxx">>, "k2", 2)

\* c1 waits on k1 with the Packed list k2 as its target, and the push of a
\* long value onto k1 is delivered into k2, which is left Linked.
C29_WitnessDelivery ==
    /\ Blocked("c1") /\ bpop["c1"].keys = <<"k1">> /\ bpop["c1"].target = "k2"
    /\ db["k1"] = NULL
    /\ db["k2"].type = "list" /\ db["k2"].encoding = "ziplist"
    /\ LinkedAfter(<<"LPUSH", "k1", "xxxx">>, "k2", tlistLength(db["k2"]) + 1)

\* A set object within the bounds of the IntSet encoding.
WithinIntsetBounds(o) ==
    /\ o.ptr \subseteq LLRange
    /\ tsetSize(o) <= set_max_intset_entries

\* C30: after every completed command, every set with the IntSet encoding
\* holds integers only and at most set_max_intset_entries of them; this
\* includes the sets SINTERSTORE / SUNIONSTORE / SDIFFSTORE store as their
\* result and the destination sets SMOVE creates.
C30_IntsetBound ==
    \A k \in KEYS :
        (db[k].type = "set" /\ db[k].encoding = "intset") => WithinIntsetBounds(db[k])

\* Two IntSets at set_max_intset_entries: the stored union has three
\* members and is a HashSet, the stored intersection and difference have
\* one member each and are IntSets.
C30_Witness ==
    /\ db["k1"].type = "set" /\ db["k1"].encoding = "intset"
    /\ db["k2"].type = "set" /\ db["k2"].encoding = "intset"
    /\ Members(db, "k1") = {"1", "2"} /\ Members(db, "k2") = {"2", "3"}
    /\ \A orc \in STraversed :
           LET u == Outcome(<<"SUNIONSTORE", "k1", "k1", "k2">>, orc).db["k1"]
               d == Outcome(<<"SDIFFSTORE", "k2", "k1", "k2">>, orc).db["k2"]
           IN /\ u.encoding = "hashtable" /\ tsetSize(u) = 3
              /\ d.encoding = "intset" /\ d.ptr = {1}
    /\ \A orc \in SSorted :
           LET i == Outcome(<<"SINTERSTORE", "k1", "k1", "k2">>, orc).db["k1"]
           IN i.encoding = "intset" /\ i.ptr = {2}

\* SMOVE into a missing key creates an IntSet for an integer and a HashSet
\* for a string.
C30_WitnessSMove ==
    /\ db["k1"].type = "set" /\ Members(db, "k1") = {"1", "a"}
    /\ db["k2"] = NULL
    /\ LET n == Outcome(<<"SMOVE", "k1", "k2", "1">>, NoOracle).db["k2"]
           a == Outcome(<<"SMOVE", "k1", "k2", "a">>, NoOracle).db["k2"]
       IN /\ n.encoding = "intset" /\ n.ptr = {1}
          /\ a.encoding = "hashtable" /\ SetContents(a) = {"a"}

\* C31: SMOVE src dst v with two different keys and v a member of src
\* leaves v out of src and in dst (which is created when it was missing),
\* every other member of src and dst as it was, and no key src when src
\* became empty; when v is no member of src, or dst holds something other
\* than a set, neither key is modified and dst is not created.
C31_SMoveFrame ==
    \A src \in KEYS : \A dst \in KEYS \ {src}, v \in SValues :
        LET r == Outcome(<<"SMOVE", src, dst, v>>, NoOracle)
        IN IF v \in Members(db, src) /\ db[dst].type \in {"none", "set"}
           THEN /\ Members(r.db, src) = Members(db, src) \ {v}
                /\ r.db[dst].type = "set"
                /\ Members(r.db, dst) = Members(db, dst) \cup {v}
                /\ (r.db[src] = NULL) <=> (Members(db, src) = {v})
                /\ r.db[src] # NULL => r.db[src].type = "set"
           ELSE r.db = db /\ r.dirty = 0

\* The last member of k1 moves into the missing key k2: k1 is deleted and
\* k2 created.
C31_Witness ==
    /\ db["k1"].type = "set" /\ Members(db, "k1") = {"a"}
    /\ db["k2"] = NULL
    /\ LET r == Outcome(<<"SMOVE", "k1", "k2", "a">>, NoOracle)
       IN r.db["k1"] = NULL /\ r.db["k2"].type = "set" /\ Members(r.db, "k2") = {"a"}

\* The destination holds a list: SMOVE of a member is refused and nothing
\* is modified.
C31_WitnessWrongType ==
    /\ db["k1"].type = "set" /\ "1" \in Members(db, "k1")
    /\ db["k2"].type = "list"
    /\ Refused(<<"SMOVE", "k1", "k2", "1">>, NoOracle)

\* One member of two moves into a set that holds other members.
C31_WitnessExisting ==
    /\ db["k1"].type = "set" /\ Members(db, "k1") = {"1", "a"}
    /\ db["k2"].type = "set" /\ Members(db, "k2") = {"2", "3"}
    /\ LET r == Outcome(<<"SMOVE", "k1", "k2", "1">>, NoOracle)
       IN Members(r.db, "k1") = {"a"} /\ Members(r.db, "k2") = {"1", "2", "3"}

\* C32: in every state the list, set and blocking commands (with unblock
\* by timeout or disconnect) reach, no key with a registered waiter holds a
\* non-empty list; hence LPUSHX, RPUSHX and LINSERT, which do not consult
\* the blocking registry, never add an element to a list a client waits on.
C32_NoWaiterOnList ==
    \A k \in KEYS :
        Waiters(k) # <<>> =>
            /\ ~(db[k].type = "list" /\ tlistLength(db[k]) > 0)
            /\ \A v \in AValues :
                   /\ Outcome(<<"LPUSHX", k, v>>, NoOracle).db = db
                   /\ Outcome(<<"RPUSHX", k, v>>, NoOracle).db = db
                   /\ \A w \in AWheres, p \in AValues :
                          Outcome(<<"LINSERT", k, w, p, v>>, NoOracle).db = db

\* c1 waits on k1 while k2 holds a list: LPUSHX and LINSERT on k1 add
\* nothing, and on k2, where nobody waits, LPUSHX adds an element.
C32_Witness ==
    /\ Waiters("k1") = <<"c1">> /\ Waiters("k2") = <<>>
    /\ db["k1"] = NULL
    /\ db["k2"].type = "list" /\ ListContents(db["k2"]) = <<"a">>
    /\ Outcome(<<"LPUSHX", "k1", "a">>, NoOracle).reply["c4"] = <<shared_czero>>
    /\ Outcome(<<"LINSERT", "k1", "BEFORE", "a", "1">>, NoOracle).reply["c4"]
           = <<shared_czero>>
    /\ ListContents(Outcome(<<"LPUSHX", "k2", "1">>, NoOracle).db["k2"]) = <<"1", "a">>

\* c1 waits on a key that holds a set.
C32_WitnessSet ==
    /\ Waiters("k1") = <<"c1">>
    /\ db["k1"].type = "set"
    /\ Outcome(<<"RPUSHX", "k1", "a">>, NoOracle).reply["c4"] = <<shared_wrongtypeerr>>

RECURSIVE DeliveryLoopLevels(_, _, _)
RECURSIVE DeliveryLevels(_, _)
\* The number of calls of handleClientsWaitingListPush nested below the
\* call for key in the state s: the loop passes over the waiters whose
\* target is no list, and the first other waiter that pops into a target
\* has rpoplpushHandlePush enter the next level for that target.
DeliveryLoopLevels(s, key, numclients) ==
    IF numclients = 0 \/ key \notin DOMAIN s.blocking_keys THEN 0
    ELSE LET receiver == handleClientsReceiver(s.blocking_keys[key])
             dstkey == s.bpop[receiver].target
             s1 == unblockClientWaitingData(s, receiver)
         IN IF dstkey = NOKEY THEN 0
            ELSE IF s1.db[dstkey] # NULL /\ s1.db[dstkey].type # "list"
            THEN DeliveryLoopLevels(s1, key, numclients - 1)
            ELSE 1 + DeliveryLevels(s1, dstkey)

DeliveryLevels(s, key) ==
    IF key \notin DOMAIN s.blocking_keys THEN 0
    ELSE DeliveryLoopLevels(s, key, Len(s.blocking_keys[key]))

\* The clients a step unblocks.
UnblockedByStep == {c \in CLIENTS : Blocked(c) /\ ~BlockedAfter(c)}

\* C33: deliver-on-push terminates for every state of the registry, also
\* when the targets of BRPOPLPUSH waiters form a cycle among keys (a waiter
\* on k1 with target k2 and one on k2 with target k1, or a waiter on k with
\* target k): every level unblocks a waiter before it enters the next, so
\* the levels number at most the clients that were blocked, and the value
\* ends up in exactly one place, a list or the reply of a plain pop.
DeliveryTerminates ==
    \A k \in KEYS, v \in BValues :
        (PushStep("c4", k, v) /\ db[k].type \in {"none", "list"}) =>
            LET levels == DeliveryLevels(Begin("c4", argv'["c4"]), k)
            IN /\ panic' = ""
               /\ levels <= Cardinality(UnblockedByStep)
               /\ levels <= Cardinality({c \in CLIENTS : Blocked(c)})
               /\ \A c \in CLIENTS : BlockedAfter(c) => Blocked(c)
               /\ Holdings(db', reply', v) = Holdings(db, NoReply, v) + 1

C33_DeliveryTerminates == [][DeliveryTerminates]_vars

\* LPUSH k1 a has gone round a cycle of two waiters: c1 and c2, who popped
\* into a target, are both answered a, nobody is blocked any more, and the
\* value is the one element of k1.
C33_Witness ==
    /\ argv["c4"] = <<"LPUSH", "k1", "a">>
    /\ reply["c1"] = <<ReplyBulk("a")>> /\ reply["c2"] = <<ReplyBulk("a")>>
    /\ reply["c4"] = <<ReplyInt(1)>>
    /\ \A c \in CLIENTS : ~Blocked(c)
    /\ db["k1"].type = "list" /\ ListContents(db["k1"]) = <<"a">>
    /\ db["k2"] = NULL

\* c1 waits on k1 with target k2 and c2 on k2 with target k1: the delivery
\* of a push onto k1 has two levels below the first.
C33_WitnessCycle ==
    /\ Waiters("k1") = <<"c1">> /\ bpop["c1"].target = "k2"
    /\ Waiters("k2") = <<"c2">> /\ bpop["c2"].target = "k1"
    /\ DeliveryLevels(St, "k1") = 2

\* c1 waits on k1 with target k1.
C33_WitnessSelf ==
    /\ Waiters("k1") = <<"c1">> /\ bpop["c1"].target = "k1"
    /\ DeliveryLevels(St, "k1") = 1

\* The position of the first entry of w in the queue q, 0 when w is not in it.
Pos(q, w) ==
    IF InSeq(q, w) THEN CHOOSE i \in 1..Len(q) : q[i] = w /\ \A j \in 1..(i - 1) : q[j] # w
    ELSE 0

\* The step moves every waiter of the queue q of k that stays blocked at
\* least one place towards the head, and unblocks the oldest.
Advances(k, q) ==
    /\ q # <<>> => ~BlockedAfter(Head(q))
    /\ \A i \in 1..Len(q) :
           BlockedAfter(q[i]) =>
               /\ InSeq(WaitersAfter(k), q[i])
               /\ Pos(WaitersAfter(k), q[i]) <= Pos(q, q[i]) - 1

\* The step is RPOPLPUSH src dst of c4 and pushes the tail of src onto dst.
RPopLPushStep(src, dst) ==
    /\ argv'["c4"] = <<"RPOPLPUSH", src, dst>>
    /\ db[src].type = "list" /\ tlistLength(db[src]) > 0
    /\ db[dst].type \in {"none", "list"}

\* C34: every push onto a key with waiters (LPUSH, RPUSH, the push step of
\* RPOPLPUSH, the push of a delivered value into the target of a
\* BRPOPLPUSH waiter) unblocks at least the oldest waiter of that key, and
\* every waiter behind it that stays blocked moves at least one place
\* towards the head; no other step moves a waiter back.  So the n-th waiter
\* of k is unblocked after at most n pushes onto k.
WaiterProgress ==
    /\ FifoQueues
    /\ \A k \in KEYS :
           /\ (\E v \in BValues : PushStep("c4", k, v) /\ db[k].type \in {"none", "list"})
                  => Advances(k, Waiters(k))
           /\ (\E src \in KEYS : RPopLPushStep(src, k)) => Advances(k, Waiters(k))
    /\ \A k \in KEYS, v \in BValues :
           (PushStep("c4", k, v) /\ Delivered(k) /\ bpop[Receiver(k)].target # NOKEY) =>
               LET t == bpop[Receiver(k)].target
                   q == Waiters(k)
               IN Advances(t, IF t = k THEN SubSeq(q, FirstEligible(k) + 1, Len(q))
                              ELSE Waiters(t))

C34_WaiterProgress == [][WaiterProgress]_vars

\* A push onto k1 has served c3 while c2 waited behind it: c2 is now the
\* oldest waiter of k1.
C34_Witness ==
    /\ \E v \in BValues : Pushed("c4", "k1", v) /\ reply["c3"] = Tuple("k1", v)
    /\ ~Blocked("c1") /\ ~Blocked("c3")
    /\ blocking_keys = [k \in {"k1"} |-> <<"c2">>]

\* RPOPLPUSH k2 k1 of c4 has handed the tail of k2 to c3, who waited on k1.
C34_WitnessRPopLPush ==
    /\ argv["c4"] = <<"RPOPLPUSH", "k2", "k1">>
    /\ \E v \in BValues : reply["c3"] = Tuple("k1", v) /\ reply["c4"] = <<ReplyBulk(v)>>
    /\ ~Blocked("c3")

\* A push onto k1 has woken c2, who pops into k2, and the push into k2 has
\* served c1, the oldest waiter of k2.
C34_WitnessTarget ==
    /\ \E v \in BValues :
           /\ Pushed("c4", "k1", v)
           /\ reply["c2"] = <<ReplyBulk(v)>>
           /\ reply["c1"] = Tuple("k2", v)
    /\ ~Blocked("c1") /\ ~Blocked("c2")

\* C35: RPOPLPUSH k k on a list of n >= 1 elements rotates the list: the
\* tail element becomes the head, the others keep their order, the length
\* stays n, the key is not deleted even when n = 1, and the reply is the
\* moved element; no other key and no waiter is touched.
C35_Rotate ==
    \A k \in KEYS :
        (db[k].type = "list" /\ tlistLength(db[k]) >= 1) =>
            LET l == ListContents(db[k])
                n == Len(l)
                r == Outcome(<<"RPOPLPUSH", k, k>>, NoOracle)
            IN /\ r.db[k] # NULL /\ r.db[k].type = "list"
               /\ ListContents(r.db[k]) = <<l[n]>> \o SubSeq(l, 1, n - 1)
               /\ tlistLength(r.db[k]) = n
               /\ r.reply["c4"] = <<ReplyBulk(l[n])>>
               /\ \A h \in KEYS \ {k} : r.db[h] = db[h]
               /\ r.blocking_keys = blocking_keys
               /\ r.panic = ""

\* A list of three different elements is rotated.
C35_Witness ==
    /\ db["k1"].type = "list" /\ ListContents(db["k1"]) = <<"1", "a", "xxxx">>
    /\ LET r == Outcome(<<"RPOPLPUSH", "k1", "k1">>, NoOracle)
       IN /\ ListContents(r.db["k1"]) = <<"xxxx", "1", "a">>
          /\ r.reply["c4"] = <<ReplyBulk("xxxx")>>

\* A list of one element stays as it is and the key is kept.
C35_WitnessOne ==
    /\ db["k1"].type = "list" /\ ListContents(db["k1"]) = <<"a">>
    /\ LET r == Outcome(<<"RPOPLPUSH", "k1", "k1">>, NoOracle)
       IN /\ r.db["k1"] # NULL /\ ListContents(r.db["k1"]) = <<"a">>
          /\ r.reply["c4"] = <<ReplyBulk("a")>>

\* The members a multi-bulk reply emits behind its header.
Emitted(rep) == {rep[i].v : i \in 2..Len(rep)}

\* The storing command st with destination dst agrees with the reply of
\* the command op on the same sources in the same state.
StoresReply(op, st, dst, keys, orc) ==
    LET q == Outcome(<<op>> \o keys, orc)
        r == Outcome(<<st, dst>> \o keys, orc)
        rep == q.reply["c4"]
    IN IF rep = <<shared_wrongtypeerr>>
       THEN r.reply["c4"] = <<shared_wrongtypeerr>> /\ r.db = db
       ELSE /\ rep[1] = ReplyMultiBulkLen(Len(rep) - 1)
            /\ Members(r.db, dst) = Emitted(rep)
            /\ (r.db[dst] = NULL) <=> (Emitted(rep) = {})
            /\ r.reply["c4"] = <<ReplyInt(Cardinality(Emitted(rep)))>>
            /\ \A k \in KEYS \ {dst} : r.db[k] = db[k]

\* C36: when the destination of SINTERSTORE / SUNIONSTORE / SDIFFSTORE is
\* one of the sources, the result is computed from what every source held
\* before the command: the stored set is what SINTER / SUNION / SDIFF reply
\* on the state before the command.
C36_StoreIntoSource ==
    \A keys \in SKeyLists, orc \in SSorted \cup STraversed :
        \A i \in 1..Len(keys) :
            /\ StoresReply("SINTER", "SINTERSTORE", keys[i], keys, orc)
            /\ StoresReply("SUNION", "SUNIONSTORE", keys[i], keys, orc)
            /\ StoresReply("SDIFF", "SDIFFSTORE", keys[i], keys, orc)

\* The destination k2 is the second source: the stored difference of k1
\* and k2 is what SDIFF replies, and the stored union holds the old members
\* of k2 too.
C36_Witness ==
    /\ db["k1"].type = "set" /\ db["k2"].type = "set"
    /\ Members(db, "k1") = {"1", "a"} /\ Members(db, "k2") = {"1", "2"}
    /\ \A orc \in STraversed :
           /\ Emitted(Outcome(<<"SDIFF", "k1", "k2">>, orc).reply["c4"]) = {"a"}
           /\ Members(Outcome(<<"SDIFFSTORE", "k2", "k1", "k2">>, orc).db, "k2") = {"a"}
           /\ Members(Outcome(<<"SUNIONSTORE", "k2", "k1", "k2">>, orc).db, "k2")
                  = {"1", "2", "a"}
           /\ Members(Outcome(<<"SDIFFSTORE", "k1", "k1", "k2">>, orc).db, "k1") = {"a"}


====
